---- MODULE Spec2Model ----
(***************************************************************************)
(* k6-modern-reporter: htmlReport(data, options) turns a k6 summary into   *)
(* one HTML document.  The report is a pure, synchronous function, so the  *)
(* state is one invocation: the function called, its arguments, and what   *)
(* it returned; htmlReport may then be called once more with the same      *)
(* arguments at another time.  Strings are sequences of one-character strings, so that   *)
(* escaping is computed character by character; a document is a sequence   *)
(* of pieces, each either a literal of the template ("markup") or the      *)
(* value of an interpolation ("text").                                     *)
(***************************************************************************)
EXTENDS Integers, Sequences, FiniteSets

VARIABLES
    call,      \* the function invoked: "escapeHtml", "countChecks", "htmlReport"
    pc,        \* "call" before the function ran, "return" after
    text,      \* escapeHtml: the argument
    escaped,   \* escapeHtml: the returned string
    checks,    \* countChecks: the argument
    tally,     \* countChecks: the returned {passes, fails}
    data,      \* htmlReport: the k6 summary
    options,   \* htmlReport: the options object
    now,       \* htmlReport: what new Date() reads
    console,   \* htmlReport: what it wrote with console.log
    stats,     \* htmlReport: what calculateStats returned
    threw,     \* htmlReport: whether it ended with a TypeError
    html,      \* htmlReport: the returned document
    first      \* htmlReport: the outcome of the call before this one, if any

vars ==
    <<call, pc, text, escaped, checks, tally, data, options, now, console, stats, threw,
      html, first>>

----------------------------------------------------------------------------
(* Bounds of the model *)

MaxLen == 3        \* escapeHtml: longest argument string
MaxChecks == 2     \* longest checks array
MaxGroups == 2     \* longest root_group.groups array
MaxMetrics == 2    \* custom metrics besides the built-in ones
MaxCount == 4      \* largest http_reqs count
RateDen == 4       \* http_req_failed rate is k / RateDen, k \in 0..RateDen

----------------------------------------------------------------------------
(* JavaScript values *)

\* An optional property: <<>> when the key is absent, <<v>> when it holds v.
Absent == <<>>
Some(v) == <<v>>
Has(o) == Len(o) > 0
Get(o) == o[1]

\* A primitive value: undefined, a string, or a number, which is NaN or the
\* rational n / d with d > 0 (an integer has d = 1).
Undef == [t |-> "undef", n |-> 0, d |-> 1, s |-> <<>>]
NaN == [t |-> "nan", n |-> 0, d |-> 1, s |-> <<>>]
Rat(n, d) == [t |-> "num", n |-> n, d |-> d, s |-> <<>>]
Num(n) == Rat(n, 1)
Str(s) == [t |-> "str", n |-> 0, d |-> 1, s |-> s]

Digits == <<"0", "1", "2", "3", "4", "5", "6", "7", "8", "9">>

IsDigit(c) == \E i \in 1..Len(Digits) : Digits[i] = c

DigitValue(c) == (CHOOSE i \in 1..Len(Digits) : Digits[i] = c) - 1

RECURSIVE Pow10(_)
Pow10(k) == IF k = 0 THEN 1 ELSE 10 * Pow10(k - 1)

RECURSIVE NatToString(_)
NatToString(n) ==
    IF n < 10 THEN <<Digits[n + 1]>>
    ELSE NatToString(n \div 10) \o <<Digits[(n % 10) + 1]>>

\* Number.prototype.toString for integers
IntToString(n) == IF n < 0 THEN <<"-">> \o NatToString(0 - n) ELSE NatToString(n)

\* String(v); the numbers the report prints this way are integers
StringOf(v) ==
    CASE v.t = "str" -> v.s
      [] v.t = "num" /\ v.n % v.d = 0 -> IntToString(v.n \div v.d)
      [] v.t = "nan" -> <<"N", "a", "N">>
      [] v.t = "undef" -> <<"u", "n", "d", "e", "f", "i", "n", "e", "d">>

\* ToBoolean(v): undefined, NaN, 0 and "" are falsy
Truthy(v) ==
    CASE v.t = "str" -> v.s # <<>>
      [] v.t = "num" -> v.n # 0
      [] OTHER -> FALSE

\* a || b
OrElse(a, b) == IF Truthy(a) THEN a ELSE b

\* The value of the leading run of digits of s, continuing from acc
RECURSIVE LeadingDigits(_, _)
LeadingDigits(s, acc) ==
    IF s = <<>> \/ ~IsDigit(Head(s)) THEN acc
    ELSE LeadingDigits(Tail(s), acc * 10 + DigitValue(Head(s)))

RECURSIVE AllDigits(_)
AllDigits(s) == s = <<>> \/ (IsDigit(Head(s)) /\ AllDigits(Tail(s)))

\* the index of the first c in s, 0 when there is none
IndexOf(s, c) ==
    IF \E i \in 1..Len(s) : s[i] = c
    THEN CHOOSE i \in 1..Len(s) : s[i] = c /\ \A j \in 1..(i - 1) : s[j] # c
    ELSE 0

\* the number an unsigned decimal literal such as 12.50 denotes, else NaN
ParseUnsigned(s) ==
    LET dot == IndexOf(s, ".")
        ip == IF dot = 0 THEN s ELSE SubSeq(s, 1, dot - 1)
        fp == IF dot = 0 THEN <<>> ELSE SubSeq(s, dot + 1, Len(s))
    IN  IF AllDigits(ip) /\ AllDigits(fp) /\ Len(ip) + Len(fp) > 0
        THEN Rat(LeadingDigits(ip, 0) * Pow10(Len(fp)) + LeadingDigits(fp, 0),
                 Pow10(Len(fp)))
        ELSE NaN

\* ToNumber(v), the coercion of the arithmetic and relational operators
ToNumber(v) ==
    CASE v.t = "num" -> v
      [] v.t = "str" /\ v.s = <<>> -> Num(0)
      [] v.t = "str" /\ v.s # <<>> /\ Head(v.s) = "-" ->
            LET m == ParseUnsigned(Tail(v.s))
            IN  IF m.t = "num" THEN Rat(0 - m.n, m.d) ELSE NaN
      [] v.t = "str" /\ v.s # <<>> /\ Head(v.s) # "-" -> ParseUnsigned(v.s)
      [] OTHER -> NaN

\* a + b, a - b, a * b, a / b on numbers: NaN is absorbing
Add(a, b) ==
    IF a.t = "num" /\ b.t = "num" THEN Rat(a.n * b.d + b.n * a.d, a.d * b.d) ELSE NaN

Sub(a, b) ==
    LET x == ToNumber(a)
        y == ToNumber(b)
    IN  IF x.t = "num" /\ y.t = "num" THEN Rat(x.n * y.d - y.n * x.d, x.d * y.d)
        ELSE NaN

Mul(a, b) ==
    LET x == ToNumber(a)
        y == ToNumber(b)
    IN  IF x.t = "num" /\ y.t = "num" THEN Rat(x.n * y.n, x.d * y.d) ELSE NaN

DivBy(a, k) ==
    LET x == ToNumber(a) IN IF x.t = "num" THEN Rat(x.n, x.d * k) ELSE NaN

\* a > 0 and a === 0
GreaterThanZero(a) == LET x == ToNumber(a) IN x.t = "num" /\ x.n > 0

StrictEqualsZero(a) == a.t = "num" /\ a.n = 0

\* the floor of n / d, d > 0
Floor(n, d) == IF n >= 0 THEN n \div d ELSE 0 - ((0 - n + d - 1) \div d)

\* Math.floor(x)
MathFloor(x) == IF x.t = "num" THEN Num(Floor(x.n, x.d)) ELSE NaN

\* Math.round(x): the integer nearest to x, the larger one on a tie
MathRound(x) == IF x.t = "num" THEN Num(Floor(2 * x.n + x.d, 2 * x.d)) ELSE NaN

\* the last k characters of s, s padded on the left with zeros to k + 1
PadZeros(s, k) ==
    IF Len(s) > k THEN s
    ELSE [i \in 1..(k + 1) |->
            IF i <= k + 1 - Len(s) THEN "0" ELSE s[i - (k + 1 - Len(s))]]

\* x.toFixed(k): x rounded to k decimals, the larger magnitude on a tie
toFixed(x, k) ==
    IF x.t # "num" THEN StringOf(NaN)
    ELSE LET neg == x.n < 0
             mag == IF neg THEN 0 - x.n ELSE x.n
             scaled == Floor(2 * mag * Pow10(k) + x.d, 2 * x.d)
             ds == PadZeros(NatToString(scaled), k)
             body == IF k = 0 THEN ds
                     ELSE SubSeq(ds, 1, Len(ds) - k) \o <<".">> \o SubSeq(ds, Len(ds) - k + 1, Len(ds))
         IN  IF neg THEN <<"-">> \o body ELSE body

\* parseInt(v): the integer a string starts with, NaN when it starts with none
ParseInt(v) ==
    LET s == StringOf(v) IN
    IF s # <<>> /\ IsDigit(Head(s)) THEN Num(LeadingDigits(s, 0))
    ELSE IF Len(s) > 1 /\ Head(s) = "-" /\ IsDigit(s[2])
         THEN Num(0 - LeadingDigits(Tail(s), 0))
         ELSE NaN

----------------------------------------------------------------------------
(* escapeHtml, src/k6-modern-reporter.js:1282 *)

\* the characters the regular expression /[&<>"']/g matches
EscapeChars == {"&", "<", ">", "\"", "'"}

\* the map of escapeHtml
EscapeMap(c) ==
    CASE c = "&" -> <<"&", "a", "m", "p", ";">>
      [] c = "<" -> <<"&", "l", "t", ";">>
      [] c = ">" -> <<"&", "g", "t", ";">>
      [] c = "\"" -> <<"&", "q", "u", "o", "t", ";">>
      [] c = "'" -> <<"&", "#", "0", "3", "9", ";">>

\* s.replace(/[&<>"']/g, m => map[m]): every match is replaced
RECURSIVE ReplaceAll(_)
ReplaceAll(s) ==
    IF s = <<>> THEN <<>>
    ELSE IF Head(s) \in EscapeChars
         THEN EscapeMap(Head(s)) \o ReplaceAll(Tail(s))
         ELSE <<Head(s)>> \o ReplaceAll(Tail(s))

\* a replace without the g flag: only the first match is replaced
RECURSIVE ReplaceFirst(_)
ReplaceFirst(s) ==
    IF s = <<>> THEN <<>>
    ELSE IF Head(s) \in EscapeChars
         THEN EscapeMap(Head(s)) \o Tail(s)
         ELSE <<Head(s)>> \o ReplaceFirst(Tail(s))

escapeHtmlFirstOnly(v) == ReplaceFirst(StringOf(v))

escapeHtml(v) == ReplaceAll(StringOf(v))

----------------------------------------------------------------------------
(* countChecks, src/k6-modern-reporter.js:960 *)

RECURSIVE countChecksFrom(_, _, _)
countChecksFrom(cs, passes, fails) ==
    IF cs = <<>> THEN [passes |-> passes, fails |-> fails]
    ELSE countChecksFrom(Tail(cs),
                         Add(passes, ParseInt(OrElse(Head(cs).passes, Num(0)))),
                         Add(fails, ParseInt(OrElse(Head(cs).fails, Num(0)))))

countChecks(cs) == countChecksFrom(cs, Num(0), Num(0))

----------------------------------------------------------------------------
(* The k6 summary                                                          *)
(*   data       = [metrics: optional sequence of metric entries in key     *)
(*                 order, root_group: optional group]                      *)
(*   metric     = [name, values, thresholds: optional sequence of          *)
(*                 [name, ok] in key order]                                *)
(*   values     = [count, rate, avg, min, med, max, p90, p95], each an     *)
(*                 optional number                                         *)
(*   group      = [name, checks: optional sequence of checks,              *)
(*                 groups: optional sequence of groups]                    *)
(*   check      = [name, passes, fails]                                    *)

http_reqs == <<"h", "t", "t", "p", "_", "r", "e", "q", "s">>
http_req_failed == <<"h", "t", "t", "p", "_", "r", "e", "q", "_", "f", "a", "i", "l", "e", "d">>
http_req_duration == <<"h", "t", "t", "p", "_", "r", "e", "q", "_", "d", "u", "r", "a", "t", "i", "o", "n">>
vus == <<"v", "u", "s">>
iterations == <<"i", "t", "e", "r", "a", "t", "i", "o", "n", "s">>
data_received == <<"d", "a", "t", "a", "_", "r", "e", "c", "e", "i", "v", "e", "d">>
data_sent == <<"d", "a", "t", "a", "_", "s", "e", "n", "t">>

NoValues ==
    [count |-> Absent, rate |-> Absent, avg |-> Absent, min |-> Absent,
     med |-> Absent, max |-> Absent, p90 |-> Absent, p95 |-> Absent]

\* data.metrics[name]: the entry under that key, if any
RECURSIVE MetricAt(_, _)
MetricAt(metrics, name) ==
    IF metrics = <<>> THEN Absent
    ELSE IF Head(metrics).name = name THEN Some(Head(metrics))
         ELSE MetricAt(Tail(metrics), name)

\* o.field || 0
OrZero(o) == IF Has(o) THEN OrElse(Get(o), Num(0)) ELSE Num(0)

\* o.field of an absent key is undefined
OrUndef(o) == IF Has(o) THEN Get(o) ELSE Undef

----------------------------------------------------------------------------
(* calculateStats, src/k6-modern-reporter.js:854 *)

\* the number of the thresholds of one metric whose ok is falsy (lines 925-929)
RECURSIVE FailedThresholds(_)
FailedThresholds(ths) ==
    IF ths = <<>> THEN 0
    ELSE (IF ~Head(ths).ok THEN 1 ELSE 0) + FailedThresholds(Tail(ths))

\* if (data.metrics[metricName].thresholds), line 922: an object is truthy,
\* the empty one too
CarriesThresholds(metric) == Has(metric.thresholds)

\* a loop that counts a metric with failed thresholds once
RECURSIVE ThresholdTallyOncePerMetric(_, _)
ThresholdTallyOncePerMetric(metrics, acc) ==
    IF metrics = <<>> THEN acc
    ELSE ThresholdTallyOncePerMetric(
            Tail(metrics),
            IF CarriesThresholds(Head(metrics))
            THEN [thresholdCount |-> acc.thresholdCount + 1,
                  thresholdFailures |-> acc.thresholdFailures
                        + (IF FailedThresholds(Get(Head(metrics).thresholds)) > 0 THEN 1 ELSE 0)]
            ELSE acc)

\* the loop of lines 921-931, from the tallies so far
RECURSIVE ThresholdTally(_, _)
ThresholdTally(metrics, acc) ==
    IF metrics = <<>> THEN acc
    ELSE ThresholdTally(
            Tail(metrics),
            IF CarriesThresholds(Head(metrics))
            THEN [thresholdCount |-> acc.thresholdCount + 1,
                  thresholdFailures |-> acc.thresholdFailures
                        + FailedThresholds(Get(Head(metrics).thresholds))]
            ELSE acc)

\* lines 934-938 and 942-946: the checks of one group added to the tallies
AddChecks(acc, group) ==
    IF Has(group.checks)
    THEN LET c == countChecks(Get(group.checks))
         IN  [passes |-> Add(acc.passes, c.passes), fails |-> Add(acc.fails, c.fails)]
    ELSE acc

\* a tally that leaves the groups out
GroupsTallyLeftOut(groups, acc) == acc

\* the loop of lines 941-947 over root_group.groups
RECURSIVE GroupsTally(_, _)
GroupsTally(groups, acc) ==
    IF groups = <<>> THEN acc
    ELSE GroupsTally(Tail(groups), AddChecks(acc, Head(groups)))

\* a loop that also descends into the groups of each group
RECURSIVE DeepGroupsTally(_, _)
DeepGroupsTally(groups, acc) ==
    IF groups = <<>> THEN acc
    ELSE DeepGroupsTally(
            Tail(groups),
            DeepGroupsTally(IF Has(Head(groups).groups) THEN Get(Head(groups).groups) ELSE <<>>,
                            AddChecks(acc, Head(groups))))

\* lines 933-947
CheckTallyDeep(root) ==
    DeepGroupsTally(IF Has(root.groups) THEN Get(root.groups) ELSE <<>>,
                    AddChecks([passes |-> Num(0), fails |-> Num(0)], root))

CheckTally(root) ==
    GroupsTally(IF Has(root.groups) THEN Get(root.groups) ELSE <<>>,
                AddChecks([passes |-> Num(0), fails |-> Num(0)], root))

\* line 949
TotalChecksPassesOnly(passes, fails) == passes

TotalChecks(passes, fails) == Add(passes, fails)

\* line 886
FailedRequestsFloor(rate, totalRequests) == MathFloor(Mul(rate, totalRequests))

FailedRequests(rate, totalRequests) == MathRound(Mul(rate, totalRequests))

\* line 887
SuccessfulRequestsIsTotal(totalRequests, failedRequests) == totalRequests

SuccessfulRequests(totalRequests, failedRequests) == Sub(totalRequests, failedRequests)

\* line 888, with the rate rounded towards zero
ErrorRateTruncated(rate) ==
    LET x == Mul(rate, Num(100))
    IN  Str(toFixed(Rat(Floor(x.n * 100, x.d), 100), 2))

\* line 888: a string
ErrorRate(rate) == Str(toFixed(Mul(rate, Num(100)), 2))

\* line 889: the string errorRate is coerced to a number by the subtraction
SuccessRate(errorRate) == Str(toFixed(Sub(Num(100), errorRate), 2))

\* the stats object of lines 856-877
DefaultStats ==
    [totalRequests |-> Num(0), successfulRequests |-> Num(0), failedRequests |-> Num(0),
     successRate |-> Num(0), errorRate |-> Num(0),
     avgResponseTime |-> Num(0), p95ResponseTime |-> Num(0),
     maxResponseTime |-> Num(0), minResponseTime |-> Num(0),
     thresholdFailures |-> Num(0), thresholdCount |-> Num(0),
     checkFailures |-> Num(0), checkPasses |-> Num(0), totalChecks |-> Num(0),
     maxVUs |-> Num(0), avgVUs |-> Num(0), iterations |-> Num(0),
     dataReceived |-> Num(0), dataSent |-> Num(0), testDuration |-> Num(0)]

\* data.metrics.x and data.root_group.x on an absent container throw (lines 880, 934)
calculateStatsThrows(d) == ~Has(d.metrics) \/ ~Has(d.root_group)

\* calculateStats(data), for a summary it does not throw on
calculateStats(d) ==
    LET metrics == Get(d.metrics)
        root == Get(d.root_group)
        reqs == MetricAt(metrics, http_reqs)
        failed == MetricAt(metrics, http_req_failed)
        duration == MetricAt(metrics, http_req_duration)
        vusM == MetricAt(metrics, vus)
        iters == MetricAt(metrics, iterations)
        received == MetricAt(metrics, data_received)
        sent == MetricAt(metrics, data_sent)
        \* lines 880-882
        totalRequests == IF Has(reqs) THEN OrZero(Get(reqs).values.count) ELSE Num(0)
        \* lines 885-890
        rate == IF Has(failed) THEN OrZero(Get(failed).values.rate) ELSE Num(0)
        failedRequests == FailedRequests(rate, totalRequests)
        errorRate == ErrorRate(rate)
        \* lines 921-931
        th == ThresholdTally(metrics, [thresholdCount |-> 0, thresholdFailures |-> 0])
        \* lines 934-947
        ck == CheckTally(root)
    IN  [totalRequests |-> totalRequests,
         failedRequests |-> IF Has(failed) THEN failedRequests ELSE Num(0),
         successfulRequests |->
            IF Has(failed) THEN SuccessfulRequests(totalRequests, failedRequests)
            ELSE Num(0),
         errorRate |-> IF Has(failed) THEN errorRate ELSE Num(0),
         successRate |->
            IF Has(failed) THEN SuccessRate(errorRate) ELSE Num(0),
         \* lines 893-899
         avgResponseTime |->
            IF Has(duration) THEN Str(toFixed(OrZero(Get(duration).values.avg), 2))
            ELSE Num(0),
         p95ResponseTime |->
            IF Has(duration) THEN Str(toFixed(OrZero(Get(duration).values.p95), 2))
            ELSE Num(0),
         maxResponseTime |->
            IF Has(duration) THEN Str(toFixed(OrZero(Get(duration).values.max), 2))
            ELSE Num(0),
         minResponseTime |->
            IF Has(duration) THEN Str(toFixed(OrZero(Get(duration).values.min), 2))
            ELSE Num(0),
         \* lines 902-905
         maxVUs |-> IF Has(vusM) THEN OrZero(Get(vusM).values.max) ELSE Num(0),
         avgVUs |->
            IF Has(vusM) THEN Str(toFixed(OrZero(Get(vusM).values.avg), 0)) ELSE Num(0),
         \* lines 908-910
         iterations |-> IF Has(iters) THEN OrZero(Get(iters).values.count) ELSE Num(0),
         \* lines 913-918
         dataReceived |->
            IF Has(received)
            THEN Str(toFixed(DivBy(OrUndef(Get(received).values.count), 1000000), 2))
            ELSE Num(0),
         dataSent |->
            IF Has(sent)
            THEN Str(toFixed(DivBy(OrUndef(Get(sent).values.count), 1000000), 2))
            ELSE Num(0),
         thresholdCount |-> Num(th.thresholdCount),
         thresholdFailures |-> Num(th.thresholdFailures),
         checkPasses |-> ck.passes,
         checkFailures |-> ck.fails,
         \* line 949
         totalChecks |-> TotalChecks(ck.passes, ck.fails),
         testDuration |-> Num(0)]

----------------------------------------------------------------------------
(* The document: a sequence of pieces.  M(l) is the literal l of a         *)
(* template, T(s) the string s that an interpolation ${...} put there.     *)

M(label) == [k |-> "markup", v |-> <<label>>]
T(chars) == [k |-> "text", v |-> chars]

\* what a loop of `html += ...` appends: the pieces of each turn, in order
RECURSIVE Concat(_)
Concat(parts) == IF parts = <<>> THEN <<>> ELSE Head(parts) \o Concat(Tail(parts))

----------------------------------------------------------------------------
(* generateChecksSection, src/k6-modern-reporter.js:1026 *)

\* an item that has the fail badge whatever check.fails is
CheckItemBothBadges(check, name) ==
    <<M("<div class=check-item>"),
      M("<div class=check-name>"), T(name), M("</div>"),
      M("<div class=check-stats>"),
      M("<span class=badge badge-success>"), M("<i class=fas fa-check></i> "),
      T(StringOf(check.passes)), M(" passed"), M("</span>"),
      M("<span class=badge badge-error>"), M("<i class=fas fa-times></i> "),
      T(StringOf(check.fails)), M(" failed"), M("</span>"),
      M("</div>"), M("</div>")>>

\* lines 1039-1046 and 1062-1069: one check with its badges
CheckItemWith(check, name) ==
    <<M("<div class=check-item>"),
      M("<div class=check-name>"), T(name), M("</div>"),
      M("<div class=check-stats>"),
      M("<span class=badge badge-success>"), M("<i class=fas fa-check></i> "),
      T(StringOf(check.passes)), M(" passed"), M("</span>")>>
    \o (IF GreaterThanZero(check.fails)
        THEN <<M("<span class=badge badge-error>"), M("<i class=fas fa-times></i> "),
               T(StringOf(check.fails)), M(" failed"), M("</span>")>>
        ELSE <<>>)
    \o <<M("</div>"), M("</div>")>>

CheckItemRaw(check) == CheckItemWith(check, StringOf(check.name))

CheckItem(check) == CheckItemWith(check, escapeHtml(check.name))

\* a block that shows the name of the group as it is
GroupBlockWith(group, name) ==
    <<M("<div class=chart-container>"),
      M("<h3 class=chart-title>"), M("<i class=fas fa-layer-group></i> Group: "),
      T(name), M("</h3>")>>
    \o (IF Has(group.checks) /\ Len(Get(group.checks)) > 0
        THEN Concat([i \in 1..Len(Get(group.checks)) |-> CheckItem(Get(group.checks)[i])])
        ELSE <<M("<p style=color: #6c757d;>"), M("No checks in this group"), M("</p>")>>)
    \o <<M("</div>")>>

\* lines 1032-1052: the block of one group
GroupBlock(group) == GroupBlockWith(group, escapeHtml(group.name))

\* an 'Other Checks' block for every root group, with checks or without
OtherChecksBlockAlways(root) ==
    <<M("<div class=chart-container>"),
      M("<h3 class=chart-title>"), M("<i class=fas fa-list-check></i> Other Checks"),
      M("</h3>")>>
    \o (IF Has(root.checks)
        THEN Concat([i \in 1..Len(Get(root.checks)) |-> CheckItem(Get(root.checks)[i])])
        ELSE <<>>)
    \o <<M("</div>")>>

\* lines 1057-1073: the block of the checks of the root group
OtherChecksBlock(root) ==
    IF Has(root.checks) /\ Len(Get(root.checks)) > 0
    THEN <<M("<div class=chart-container>"),
           M("<h3 class=chart-title>"), M("<i class=fas fa-list-check></i> Other Checks"),
           M("</h3>")>>
         \o Concat([i \in 1..Len(Get(root.checks)) |-> CheckItem(Get(root.checks)[i])])
         \o <<M("</div>")>>
    ELSE <<>>

\* a section left empty when there is nothing to show
NothingShown == <<>>

\* lines 1076-1078
NoChecksConfigured ==
    <<M("<div class=chart-container>"), M("<p style=color: #6c757d;>"),
      M("No checks configured for this test"), M("</p>"), M("</div>")>>

generateChecksSection(d) ==
    LET root == Get(d.root_group)
        blocks == (IF Has(root.groups) /\ Len(Get(root.groups)) > 0
                   THEN Concat([i \in 1..Len(Get(root.groups)) |-> GroupBlock(Get(root.groups)[i])])
                   ELSE <<>>)
                  \o OtherChecksBlock(root)
    IN  IF blocks = <<>> THEN NoChecksConfigured ELSE blocks

----------------------------------------------------------------------------
(* generateThresholdsSection, src/k6-modern-reporter.js:1090 *)

\* lines 1117-1140: the card of one threshold of the metric named metricName
ThresholdRow(metricName, threshold) ==
    LET isPassed == threshold.ok IN
    <<M(IF isPassed THEN "<div class=check-item style=border-left: 4px solid #28a745;>"
        ELSE "<div class=check-item style=border-left: 4px solid #dc3545;>"),
      M("<div style=flex: 1;>"),
      M("<div style=font-weight: 600; margin-bottom: 5px;>"),
      M(IF isPassed THEN "<i class=fas fa-check-circle style=color: #28a745;></i> "
        ELSE "<i class=fas fa-times-circle style=color: #dc3545;></i> "),
      T(escapeHtml(Str(metricName))),
      M("</div>"),
      M("<div style=color: #6c757d; font-size: 0.9em; font-family: monospace;>"),
      T(escapeHtml(Str(threshold.name))),
      M("</div>"),
      M("</div>"),
      M("<div class=check-stats>")>>
    \o (IF isPassed
        THEN <<M("<span class=badge badge-success>"), M("<i class=fas fa-check></i> PASSED"),
               M("</span>")>>
        ELSE <<M("<span class=badge badge-error>"), M("<i class=fas fa-times></i> FAILED"),
               M("</span>")>>)
    \o <<M("</div>"), M("</div>")>>

\* lines 1106-1141: the cards of one metric
RECURSIVE ThresholdRows(_, _)
ThresholdRows(metricName, ths) ==
    IF ths = <<>> THEN <<>>
    ELSE ThresholdRow(metricName, Head(ths)) \o ThresholdRows(metricName, Tail(ths))

\* a count that takes every threshold for a passed one
PassedThresholdsAll(ths) == Len(ths)

\* the number of the thresholds of one metric whose ok is truthy (lines 1110-1111)
RECURSIVE PassedThresholds(_)
PassedThresholds(ths) ==
    IF ths = <<>> THEN 0
    ELSE (IF Head(ths).ok THEN 1 ELSE 0) + PassedThresholds(Tail(ths))

\* the loop of lines 1099-1143, from what it has built so far
RECURSIVE ThresholdsLoop(_, _)
ThresholdsLoop(metrics, acc) ==
    IF metrics = <<>> THEN acc
    ELSE LET metric == Head(metrics) IN
         ThresholdsLoop(
            Tail(metrics),
            IF Has(metric.thresholds)
            THEN [html |-> acc.html \o ThresholdRows(metric.name, Get(metric.thresholds)),
                  hasThresholds |-> TRUE,
                  passedCount |-> acc.passedCount + PassedThresholds(Get(metric.thresholds)),
                  failedCount |-> acc.failedCount + FailedThresholds(Get(metric.thresholds))]
            ELSE acc)

\* lines 1091-1092
ThresholdsHeading ==
    <<M("<div class=chart-container>"),
      M("<h3 class=chart-title>"), M("<i class=fas fa-gauge-high></i> Threshold Results"),
      M("</h3>")>>

\* the whole of html, heading included
AfterNothing(doc) == doc

\* html.substring(html.indexOf('</h3>') + 5), line 1161
AfterFirstH3(doc) == SubSeq(doc, IndexOf(doc, M("</h3>")) + 1, Len(doc))

\* lines 1150-1160: the heading again, followed by the two summary cells
ThresholdsSummary(passedCount, failedCount) ==
    ThresholdsHeading
    \o <<M("<div style=display: grid; grid-template-columns: 1fr 1fr;>"),
         M("<div style=background: linear-gradient(135deg, #d4edda 0%, #c3e6cb 100%);>"),
         M("<div style=font-size: 2.5em; font-weight: 700; color: #155724;>"),
         T(IntToString(passedCount)), M("</div>"),
         M("<div style=color: #155724; font-weight: 600;>"), M("Passed"), M("</div>"),
         M("</div>"),
         M("<div style=background: linear-gradient(135deg, #f8d7da 0%, #f5c6cb 100%);>"),
         M("<div style=font-size: 2.5em; font-weight: 700; color: #721c24;>"),
         T(IntToString(failedCount)), M("</div>"),
         M("<div style=color: #721c24; font-weight: 600;>"), M("Failed"), M("</div>"),
         M("</div>"),
         M("</div>")>>

generateThresholdsSection(d) ==
    LET loop == ThresholdsLoop(Get(d.metrics),
                               [html |-> ThresholdsHeading, hasThresholds |-> FALSE,
                                passedCount |-> 0, failedCount |-> 0])
    IN  (IF ~loop.hasThresholds
         THEN loop.html
              \o <<M("<p style=color: #6c757d; text-align: center; padding: 40px;>"),
                   M("No thresholds configured for this test"), M("</p>")>>
         ELSE ThresholdsSummary(loop.passedCount, loop.failedCount)
              \o AfterFirstH3(loop.html))
        \o <<M("</div>")>>

----------------------------------------------------------------------------
(* generateTestInfoSection, src/k6-modern-reporter.js:1175 *)

\* lines 1183-1186: the row of one entry [key, value]
InfoRow(entry) ==
    <<M("<tr>"),
      M("<td>"), M("<i class=fas fa-caret-right style=color: #667eea; margin-right: 8px;></i>"),
      T(escapeHtml(Str(entry.key))), M("</td>"),
      M("<td>"), T(escapeHtml(Str(StringOf(entry.value)))), M("</td>"),
      M("</tr>")>>

generateTestInfoSection(additionalInfo) ==
    <<M("<div class=chart-container>"),
      M("<h3 class=chart-title>"),
      M("<i class=fas fa-info-circle></i> Test Configuration & Additional Information"),
      M("</h3>"),
      M("<table class=info-table>")>>
    \o Concat([i \in 1..Len(additionalInfo) |-> InfoRow(additionalInfo[i])])
    \o <<M("</table>"), M("</div>")>>

----------------------------------------------------------------------------
(* generateMetricsTable, src/k6-modern-reporter.js:977 *)

http_req_waiting == <<"h", "t", "t", "p", "_", "r", "e", "q", "_", "w", "a", "i", "t", "i", "n", "g">>
http_req_connecting == <<"h", "t", "t", "p", "_", "r", "e", "q", "_", "c", "o", "n", "n", "e", "c", "t", "i", "n", "g">>
http_req_tls_handshaking == <<"h", "t", "t", "p", "_", "r", "e", "q", "_", "t", "l", "s", "_", "h", "a", "n", "d", "s", "h", "a", "k", "i", "n", "g">>
http_req_sending == <<"h", "t", "t", "p", "_", "r", "e", "q", "_", "s", "e", "n", "d", "i", "n", "g">>
http_req_receiving == <<"h", "t", "t", "p", "_", "r", "e", "q", "_", "r", "e", "c", "e", "i", "v", "i", "n", "g">>
http_req_blocked == <<"h", "t", "t", "p", "_", "r", "e", "q", "_", "b", "l", "o", "c", "k", "e", "d">>
iteration_duration == <<"i", "t", "e", "r", "a", "t", "i", "o", "n", "_", "d", "u", "r", "a", "t", "i", "o", "n">>

\* lines 979-988
standardMetrics ==
    <<http_req_duration, http_req_waiting, http_req_connecting, http_req_tls_handshaking,
      http_req_sending, http_req_receiving, http_req_blocked, iteration_duration>>

\* lines 1001-1009: the row of one metric
MetricRow(metricName, values) ==
    <<M("<tr>"),
      M("<td><strong>"), T(metricName), M("</strong></td>"),
      M("<td>"), T(toFixed(OrZero(values.avg), 2)), M("</td>"),
      M("<td class=metric-value-good>"), T(toFixed(OrZero(values.min), 2)), M("</td>"),
      M("<td>"), T(toFixed(OrZero(values.med), 2)), M("</td>"),
      M("<td class=metric-value-bad>"), T(toFixed(OrZero(values.max), 2)), M("</td>"),
      M("<td>"), T(toFixed(OrZero(values.p90), 2)), M("</td>"),
      M("<td>"), T(toFixed(OrZero(values.p95), 2)), M("</td>"),
      M("</tr>")>>

\* a loop over the metrics of the summary in place of the list
RECURSIVE MetricRowsInSummaryOrder(_, _)
MetricRowsInSummaryOrder(metrics, names) ==
    IF metrics = <<>> THEN <<>>
    ELSE (IF \E i \in 1..Len(names) : names[i] = Head(metrics).name
          THEN MetricRow(Head(metrics).name, Head(metrics).values) ELSE <<>>)
         \o MetricRowsInSummaryOrder(Tail(metrics), names)

\* the loop of lines 996-1011
RECURSIVE MetricRows(_, _)
MetricRows(metrics, names) ==
    IF names = <<>> THEN <<>>
    ELSE LET metric == MetricAt(metrics, Head(names)) IN
         (IF Has(metric) THEN MetricRow(Head(names), Get(metric).values) ELSE <<>>)
         \o MetricRows(metrics, Tail(names))

generateMetricsTable(d) ==
    <<M("<div class=chart-container>"),
      M("<h3 class=chart-title>"), M("HTTP Request Metrics"), M("</h3>"),
      M("<table class=metrics-table>"), M("<thead>"), M("<tr>"),
      M("<th>Metric</th><th>Avg</th><th>Min</th><th>Med</th><th>Max</th><th>P90</th><th>P95</th>"),
      M("</tr>"), M("</thead>"), M("<tbody>")>>
    \o MetricRows(Get(d.metrics), standardMetrics)
    \o <<M("</tbody>"), M("</table>"), M("</div>"),
         M("<p style=margin-top: 10px; color: #6c757d; font-size: 0.9em;>"),
         M("<i class=fas fa-info-circle></i> All times are in milliseconds"), M("</p>")>>

----------------------------------------------------------------------------
(* generateOverviewSection, src/k6-modern-reporter.js:1202 *)

\* lines 1208-1216 and 1219-1227: one progress bar
ProgressBar(label, valueClass, fillClass, rate) ==
    <<M("<div style=margin: 30px 0;>"),
      M("<div style=display: flex; justify-content: space-between; margin-bottom: 10px;>"),
      M("<span>"), M(label), M("</span>"),
      M(valueClass), T(StringOf(rate)), M("%"), M("</span>"),
      M("</div>"),
      M("<div class=progress-bar>"),
      M(fillClass), T(StringOf(rate)), M("%>"), T(StringOf(rate)), M("%"), M("</div>"),
      M("</div>"),
      M("</div>")>>

\* lines 1232-1250: one cell of the response time grid
TimeCell(label, valueStyle, value) ==
    <<M("<div style=text-align: center; padding: 20px; background: #f8f9fa; border-radius: 10px;>"),
      M("<div style=font-size: 0.9em; color: #6c757d; margin-bottom: 5px;>"), M(label),
      M("</div>"),
      M(valueStyle), T(StringOf(value)), M("ms"), M("</div>"),
      M("</div>")>>

\* lines 1259-1269: one cell of the data transfer grid
DataCell(icon, label, value) ==
    <<M("<div style=text-align: center;>"),
      M(icon),
      M("<div style=font-size: 2em; font-weight: 700; margin: 10px 0;>"),
      T(StringOf(value)), M(" MB"), M("</div>"),
      M("<div style=color: #6c757d;>"), M(label), M("</div>"),
      M("</div>")>>

generateOverviewSection(st) ==
    <<M("<div class=chart-container>"),
      M("<h3 class=chart-title>"), M("Performance Overview"), M("</h3>")>>
    \o ProgressBar("Success Rate", "<span class=metric-value-good>",
                   "<div class=progress-fill style=width: ", st.successRate)
    \o ProgressBar("Error Rate", "<span class=metric-value-bad>",
                   "<div class=progress-fill error style=width: ", st.errorRate)
    \o <<M("<div style=display: grid; gap: 20px; margin-top: 30px;>")>>
    \o TimeCell("MIN", "<div style=font-size: 1.8em; font-weight: 700; color: #28a745;>",
                st.minResponseTime)
    \o TimeCell("AVG", "<div style=font-size: 1.8em; font-weight: 700, color: #667eea;>",
                st.avgResponseTime)
    \o TimeCell("P95", "<div style=font-size: 1.8em; font-weight: 700; color: #f2994a;>",
                st.p95ResponseTime)
    \o TimeCell("MAX", "<div style=font-size: 1.8em; font-weight: 700; color: #dc3545;>",
                st.maxResponseTime)
    \o <<M("</div>"), M("</div>"),
         M("<div class=chart-container>"),
         M("<h3 class=chart-title>"), M("Data Transfer"), M("</h3>"),
         M("<div style=display: grid; grid-template-columns: 1fr 1fr; gap: 30px;>")>>
    \o DataCell("<i class=fas fa-download></i>", "Data Received", st.dataReceived)
    \o DataCell("<i class=fas fa-upload></i>", "Data Sent", st.dataSent)
    \o <<M("</div>"), M("</div>")>>

----------------------------------------------------------------------------
(* generateModernHTML, src/k6-modern-reporter.js:58 *)

\* line 60 with the threshold failures left out
TestStatusIgnoringThresholds(st) ==
    StrictEqualsZero(st.failedRequests) /\ StrictEqualsZero(st.checkFailures)

\* line 60
TestStatus(st) ==
    /\ StrictEqualsZero(st.failedRequests)
    /\ StrictEqualsZero(st.checkFailures)
    /\ StrictEqualsZero(st.thresholdFailures)

\* lines 674 and 678
StatusBanner(testStatus) ==
    M(IF testStatus THEN "ALL TESTS PASSED" ELSE "TESTS FAILED")

\* line 109: the background of .header
HeaderBackground(testStatus) ==
    M(IF testStatus THEN "linear-gradient(135deg, #11998e 0%, #38ef7d 100%)"
      ELSE "linear-gradient(135deg, #eb3349 0%, #f45c43 100%)")

\* line 670: the method goes into the class name and the badge as it is
MethodBadge(httpMethod) ==
    IF Truthy(httpMethod)
    THEN <<M("<span class=http-method-badge method-"), T(StringOf(httpMethod)), M(">"),
           T(StringOf(httpMethod)), M("</span>")>>
    ELSE <<M("<i class=fas fa-link></i>")>>

\* lines 668-680
SubtitleAndStatus(subtitle, httpMethod, testStatus) ==
    IF Truthy(subtitle)
    THEN <<M("<div class=header-subtitle>")>>
         \o MethodBadge(httpMethod)
         \o <<T(escapeHtml(subtitle)), M("</div>"),
              M("<span class=test-status style=margin-top: 15px;>"),
              StatusBanner(testStatus), M("</span>")>>
    ELSE <<M("<span class=test-status>"), StatusBanner(testStatus), M("</span>")>>

\* lines 63-654: the head, with the title and the style sheet
DocumentHead(title, testStatus) ==
    <<M("<!DOCTYPE html>"), M("<html lang=en>"), M("<head>"),
      M("<meta charset=UTF-8>"),
      M("<meta name=viewport content=width=device-width, initial-scale=1.0>"),
      M("<title>"), M("K6 Performance Test Report - "), T(escapeHtml(title)), M("</title>"),
      M("<link rel=stylesheet href=https://cdnjs.cloudflare.com/ajax/libs/font-awesome/6.4.0/css/all.min.css>"),
      M("<style>"), M(".header { background: "), HeaderBackground(testStatus),
      M("; } /* the rest of the style sheet */"), M("</style>"),
      M("</head>")>>

\* lines 653-686: the header
Header(title, subtitle, httpMethod, testStatus, clock) ==
    <<M("<div class=header>"), M("<div class=header-content>"),
      M("<h1>"), M("<div class=k6-logo>"), M("<svg>...</svg>"), M("</div>"),
      M("K6 Performance Test Report"), M("</h1>"),
      M("<p style=font-size: 1.2em; opacity: 0.9; margin: 10px 0;>"),
      T(escapeHtml(title)), M("</p>")>>
    \o SubtitleAndStatus(subtitle, httpMethod, testStatus)
    \o <<M("<p style=margin-top: 15px; opacity: 0.9;>"),
         M("<i class=far fa-clock></i> Generated: "), T(clock.locale), M("</p>"),
         M("</div>"), M("</div>")>>

\* one card of lines 693-738
StatCard(class, icon, label, value, subtext) ==
    <<M(class), M(icon),
      M("<div class=stat-label>"), M(label), M("</div>"),
      M("<div class=stat-value>")>> \o value \o <<M("</div>"),
      M("<div class=stat-subtext>")>> \o subtext \o <<M("</div>"),
      M("</div>")>>

CardClass(kind) ==
    CASE kind = "success" -> "<div class=stat-card success>"
      [] kind = "error" -> "<div class=stat-card error>"
      [] kind = "warning" -> "<div class=stat-card warning>"
      [] OTHER -> "<div class=stat-card>"

\* parseFloat(v) > 1000, line 709
Above1000(v) == LET x == ToNumber(v) IN x.t = "num" /\ x.n > 1000 * x.d

\* lines 691-739.  toLocaleString prints a count below 1000 as toString does.
StatsGrid(st) ==
    <<M("<div class=stats-grid>")>>
    \o StatCard(CardClass(IF StrictEqualsZero(st.failedRequests) THEN "success" ELSE "error"),
                "<i class=fas fa-globe stat-icon></i>", "Total Requests",
                <<T(StringOf(st.totalRequests))>>,
                <<T(StringOf(st.successfulRequests)), M(" successful")>>)
    \o StatCard(CardClass(IF GreaterThanZero(st.errorRate) THEN "error" ELSE "success"),
                "<i class=fas fa-chart-line stat-icon></i>", "Success Rate",
                <<T(StringOf(st.successRate)), M("%")>>,
                <<T(StringOf(st.failedRequests)), M(" failed requests")>>)
    \o StatCard(CardClass(IF Above1000(st.avgResponseTime) THEN "warning" ELSE "success"),
                "<i class=fas fa-tachometer-alt stat-icon></i>", "Avg Response Time",
                <<T(StringOf(st.avgResponseTime)), M("<span style=font-size: 0.5em;>"),
                  M("ms"), M("</span>")>>,
                <<M("P95: "), T(StringOf(st.p95ResponseTime)), M("ms")>>)
    \o StatCard(CardClass("plain"),
                "<i class=fas fa-users stat-icon></i>", "Virtual Users",
                <<T(StringOf(st.maxVUs))>>,
                <<M("Average: "), T(StringOf(st.avgVUs)), M(" VUs")>>)
    \o StatCard(CardClass(IF GreaterThanZero(st.checkFailures) THEN "error" ELSE "success"),
                "<i class=fas fa-check-circle stat-icon></i>", "Checks",
                <<T(StringOf(st.totalChecks))>>,
                <<T(StringOf(st.checkPasses)), M(" passed / "),
                  T(StringOf(st.checkFailures)), M(" failed")>>)
    \o StatCard(CardClass(IF GreaterThanZero(st.thresholdFailures) THEN "error" ELSE "success"),
                "<i class=fas fa-exclamation-triangle stat-icon></i>", "Thresholds",
                <<T(StringOf(st.thresholdFailures))>>,
                <<M("of "), T(StringOf(st.thresholdCount)), M(" breached")>>)
    \o <<M("</div>")>>

\* lines 746-765: the tab buttons
TabButtons(additionalInfo) ==
    <<M("<div class=tabs>"),
      M("<button class=tab-button active onclick=switchTab(event, 'overview')>"),
      M("<i class=fas fa-chart-pie></i> Overview"), M("</button>"),
      M("<button class=tab-button onclick=switchTab(event, 'metrics')>"),
      M("<i class=fas fa-table></i> Detailed Metrics"), M("</button>"),
      M("<button class=tab-button onclick=switchTab(event, 'checks')>"),
      M("<i class=fas fa-tasks></i> Checks & Groups"), M("</button>"),
      M("<button class=tab-button onclick=switchTab(event, 'thresholds')>"),
      M("<i class=fas fa-gauge-high></i> Thresholds"), M("</button>")>>
    \o (IF Len(additionalInfo) > 0
        THEN <<M("<button class=tab-button onclick=switchTab(event, 'testinfo')>"),
               M("<i class=fas fa-info-circle></i> Test Info"), M("</button>")>>
        ELSE <<>>)
    \o <<M("</div>")>>

\* one panel of lines 770-794
TabPanel(open, content) == <<M(open)>> \o content \o <<M("</div>")>>

\* lines 744-795
Tabs(d, additionalInfo, st) ==
    <<M("<div class=tabs-container>")>>
    \o TabButtons(additionalInfo)
    \o TabPanel("<div id=overview class=tab-content active>", generateOverviewSection(st))
    \o TabPanel("<div id=metrics class=tab-content>", generateMetricsTable(d))
    \o TabPanel("<div id=checks class=tab-content>", generateChecksSection(d))
    \o TabPanel("<div id=thresholds class=tab-content>", generateThresholdsSection(d))
    \o (IF Len(additionalInfo) > 0
        THEN TabPanel("<div id=testinfo class=tab-content>",
                      generateTestInfoSection(additionalInfo))
        ELSE <<>>)
    \o <<M("</div>")>>

\* lines 800-807
Footer ==
    <<M("<div class=footer>"),
      M("<p><strong>K6 Reporter by Samin Azhan</strong></p>"),
      M("<p>Generated with love by K6 Performance Testing Suite</p>"),
      M("<p style=margin-top: 10px;>"),
      M("<a href=https://k6.io/docs/ target=_blank>K6 Documentation</a> | "),
      M("<a href=https://github.com/Samin005 target=_blank>GitHub</a>"),
      M("</p>"),
      M("</div>")>>

generateModernHTML(d, title, subtitle, httpMethod, additionalInfo, st, clock) ==
    LET testStatus == TestStatus(st) IN
    DocumentHead(title, testStatus)
    \o <<M("<body>"), M("<div class=container>")>>
    \o Header(title, subtitle, httpMethod, testStatus, clock)
    \o StatsGrid(st)
    \o Tabs(d, additionalInfo, st)
    \o Footer
    \o <<M("</div>"),
         M("<script>"), M("function switchTab(event, tabId) { ... }"), M("</script>"),
         M("</body>"), M("</html>")>>

----------------------------------------------------------------------------
(* htmlReport, src/k6-modern-reporter.js:25 *)

\* options.x || fallback, for an optional key x
OptionOr(o, fallback) == IF Has(o) THEN OrElse(Get(o), fallback) ELSE fallback

\* a title that is always the time of the call
TitleAlwaysClock(opts, clock) == Str(clock.iso)

\* lines 27-30: the options with their defaults.  clock.iso is
\* new Date().toISOString().slice(0, 16).replace("T", " ").
Title(opts, clock) == OptionOr(opts.title, Str(clock.iso))
Subtitle(opts) == OptionOr(opts.subtitle, Str(<<>>))
HttpMethod(opts) == OptionOr(opts.httpMethod, Str(<<>>))

\* the additionalInfo option left unread
AdditionalInfoIgnored(opts) == <<>>

\* line 30
AdditionalInfo(opts) == IF Has(opts.additionalInfo) THEN Get(opts.additionalInfo) ELSE <<>>

\* lines 33-38: what console.log is called with
Console(d, opts) ==
    <<[msg |-> "[k6-reporter-modern] Generating modern HTML summary report", arg |-> Absent]>>
    \o (IF Has(opts.debug) /\ Get(opts.debug)
        THEN <<[msg |-> "JSON.stringify(data, null, 2)", arg |-> Some(d)]>>
        ELSE <<>>)

\* a report that carries a note in the document when debug is on
htmlReportWithDump(d, opts, clock) ==
    generateModernHTML(d, Title(opts, clock), Subtitle(opts), HttpMethod(opts),
                       AdditionalInfo(opts), calculateStats(d), clock)
    \o (IF Has(opts.debug) /\ Get(opts.debug) THEN <<M("<!-- debug -->")>> ELSE <<>>)

\* lines 41-44, for a summary calculateStats does not throw on
htmlReport(d, opts, clock) ==
    generateModernHTML(d, Title(opts, clock), Subtitle(opts), HttpMethod(opts),
                       AdditionalInfo(opts), calculateStats(d), clock)

\* a call that hands back the head of the document when calculateStats throws
htmlReportResultPartial(d, opts, clock) ==
    IF calculateStatsThrows(d) THEN DocumentHead(Title(opts, clock), TRUE)
    ELSE htmlReport(d, opts, clock)

\* lines 41-44: what the caller gets, nothing when calculateStats throws:
\* generateModernHTML is not reached and htmlReport catches nothing
htmlReportResult(d, opts, clock) ==
    IF calculateStatsThrows(d) THEN <<>> ELSE htmlReport(d, opts, clock)

----------------------------------------------------------------------------
(* The inputs the functions are called with *)

SeqsUpTo(S, n) == UNION {[1..k -> S] : k \in 0..n}

\* escapeHtml: every string of at most MaxLen of these characters, and some
\* values that are not strings
Alphabet == {"&", "<", ">", "\"", "'", "a", ";"}

Texts ==
    {Str(s) : s \in SeqsUpTo(Alphabet, MaxLen)}
    \cup {Num(n) : n \in 0..MaxCount} \cup {Undef, NaN}

\* names and threshold expressions, with and without markup characters
NAME_A == <<"A">>
NAME_B == <<"<", "b", ">">>
NAME_C == <<"x", "&", "y">>
NAME_G1 == <<"G", "1">>
NAME_G2 == <<"g", "\"", "2", "'">>
NAME_G3 == <<"<", "i", ">", "3">>
NAME_G4 == <<"&", "a", "m", "p", ";">>
EXPR_1 == <<"p", "(", "9", "5", ")", "<", "1", "0", "0", "0">>
EXPR_2 == <<"r", "a", "t", "e", ">", "=", "0", ".", "9", "&", "'", "x", "'">>

\* what a passes or fails field may hold
FieldValues ==
    {Undef, Num(0), Num(1), Num(2), Str(<<>>), Str(<<"a">>), Str(<<"3">>), Str(<<"2", "x">>)}

Check(name, passes, fails) == [name |-> Str(name), passes |-> passes, fails |-> fails]

\* countChecks: checks with one field well formed and the other one anything
AnyChecks ==
    {Check(<<"c">>, p, Num(1)) : p \in FieldValues}
    \cup {Check(<<"c">>, Num(1), f) : f \in FieldValues}
    \cup {Check(<<"c">>, Undef, Undef), Check(<<"c">>, Str(<<"a">>), Str(<<"a">>))}

\* checks as k6 reports them
CheckA == Check(NAME_A, Num(3), Num(0))
CheckB == Check(NAME_B, Num(1), Num(1))
CheckC == Check(NAME_C, Num(0), Num(2))

CheckSamples == {CheckA, CheckB, CheckC}

Group(name, cs, gs) == [name |-> Str(name), checks |-> cs, groups |-> gs]

\* groups as k6 reports them, with and without checks and groups of their own
GroupSamples ==
    {Group(NAME_G1, Some(<<CheckB>>), Some(<<>>)),
     Group(NAME_G2, Some(<<>>), Some(<<Group(NAME_A, Some(<<CheckC, CheckA>>), Some(<<>>))>>)),
     Group(NAME_G3, Absent, Absent),
     Group(NAME_G4, Some(<<CheckA, CheckA>>),
           Some(<<Group(NAME_B, Some(<<CheckB>>),
                        Some(<<Group(NAME_C, Some(<<CheckC>>), Absent)>>))>>))}

\* root groups: every checks array without groups, and every groups array
\* with no, an empty and a two-element checks array
RootGroups ==
    {Group(<<>>, cs, gs) :
        cs \in {Absent} \cup {Some(x) : x \in SeqsUpTo(CheckSamples, MaxChecks)},
        gs \in {Absent, Some(<<>>)}}
    \cup {Group(<<>>, cs, gs) :
            cs \in {Absent, Some(<<>>), Some(<<CheckA, CheckB>>)},
            gs \in {Some(x) : x \in SeqsUpTo(GroupSamples, MaxGroups)}}

EmptyRoot == Group(<<>>, Some(<<>>), Some(<<>>))

Metric(name, values, thresholds) ==
    [name |-> name, values |-> values, thresholds |-> thresholds]

Threshold(name, ok) == [name |-> name, ok |-> ok]

\* the thresholds of one metric: none, an empty mapping, passed and failed ones
ThresholdSamples ==
    {Absent, Some(<<>>),
     Some(<<Threshold(EXPR_1, TRUE)>>),
     Some(<<Threshold(EXPR_1, FALSE)>>),
     Some(<<Threshold(EXPR_1, TRUE), Threshold(EXPR_2, FALSE)>>),
     Some(<<Threshold(EXPR_1, FALSE), Threshold(EXPR_2, FALSE)>>)}

\* the name of the i-th custom metric
SpecialChars == <<"<", "&", "\"", "'", ">">>

CustomName(i) == <<"m", SpecialChars[(i % Len(SpecialChars)) + 1], Digits[(i % 10) + 1]>>

\* at most MaxMetrics custom metrics, each with thresholds or without
CustomMetrics ==
    UNION {{[i \in 1..k |-> Metric(CustomName(i), NoValues, f[i])] :
                f \in [1..k -> ThresholdSamples]} : k \in 0..MaxMetrics}

\* http_reqs and http_req_failed: absent, without the value, with a value
RequestMetrics ==
    {r \o f :
        r \in {<<>>, <<Metric(http_reqs, NoValues, Absent)>>}
              \cup {<<Metric(http_reqs, [NoValues EXCEPT !.count = Some(Num(n))], Absent)>> :
                        n \in 0..MaxCount},
        f \in {<<>>, <<Metric(http_req_failed, NoValues, Absent)>>}
              \cup {<<Metric(http_req_failed,
                             [NoValues EXCEPT !.rate = Some(Rat(k, RateDen))], Absent)>> :
                        k \in 0..RateDen}}

\* rates whose percentage has more than two decimals, one of them a tie
RoundedRates == {Rat(1, 3), Rat(2, 3), Rat(1, 800), Rat(1999, 2000)}

RoundedRequestMetrics ==
    {<<Metric(http_reqs, [NoValues EXCEPT !.count = Some(Num(MaxCount))], Absent),
       Metric(http_req_failed, [NoValues EXCEPT !.rate = Some(q)], Absent)>> :
        q \in RoundedRates}

\* the other metrics calculateStats and the metrics table read
Timed(name, v) ==
    Metric(name,
           [NoValues EXCEPT !.avg = Some(v), !.min = Some(v), !.med = Some(v),
                            !.max = Some(v), !.p90 = Some(v), !.p95 = Some(v)],
           Absent)

TimingMetrics ==
    {<<Timed(http_req_duration, Rat(1235, 1000)), Timed(iteration_duration, Num(2000)),
       Metric(vus, [NoValues EXCEPT !.max = Some(Num(50)), !.avg = Some(Rat(51, 2))], Absent),
       Metric(iterations, [NoValues EXCEPT !.count = Some(Num(100))], Absent),
       Metric(data_received, [NoValues EXCEPT !.count = Some(Num(1234567))], Absent),
       Metric(data_sent, [NoValues EXCEPT !.count = Some(Num(4999))], Absent)>>,
     <<Metric(http_req_duration, NoValues, Absent), Timed(http_req_blocked, Rat(5, 1000)),
       Metric(vus, NoValues, Absent), Metric(iterations, NoValues, Absent),
       Metric(data_received, NoValues, Absent), Metric(data_sent, NoValues, Absent)>>}

\* metrics of the table and others, in any order of the summary
TableMetricNames ==
    {iteration_duration, http_req_blocked, http_req_waiting, http_req_duration, vus,
     CustomName(1)}

TableMetrics ==
    UNION {{[i \in 1..k |-> Timed(f[i], Num(5 * i))] :
                f \in {g \in [1..k -> TableMetricNames] :
                            \A i, j \in 1..k : i # j => g[i] # g[j]}} : k \in 1..MaxMetrics}

Summary(metrics, root) == [metrics |-> Some(metrics), root_group |-> Some(root)]

\* a few of each part, for the summaries that combine them
FewRequestMetrics ==
    {<<>>,
     <<Metric(http_reqs, [NoValues EXCEPT !.count = Some(Num(MaxCount))], Absent),
       Metric(http_req_failed, [NoValues EXCEPT !.rate = Some(Rat(0, RateDen))],
              Some(<<Threshold(EXPR_1, TRUE)>>))>>,
     <<Metric(http_reqs, [NoValues EXCEPT !.count = Some(Num(MaxCount))], Absent),
       Metric(http_req_failed, [NoValues EXCEPT !.rate = Some(Rat(RateDen, RateDen))],
              Absent)>>}

FewCustomMetrics ==
    {<<>>, <<Metric(CustomName(1), NoValues, Some(<<Threshold(EXPR_2, FALSE)>>))>>}

FewRootGroups ==
    {EmptyRoot,
     Group(<<>>, Some(<<CheckA>>), Absent),
     Group(<<>>, Some(<<CheckA>>), Some(<<Group(NAME_G1, Some(<<CheckB>>), Absent)>>))}

FewSummaries ==
    {Summary(r \o c, Group(<<>>, Some(<<CheckA>>),
                            Some(<<Group(NAME_G1, Some(<<CheckB>>), Absent)>>))) :
        r \in FewRequestMetrics, c \in FewCustomMetrics}
    \cup {Summary(<<>>, g) : g \in FewRootGroups}

\* the summaries: each part over its whole range with the others empty, and
\* the combinations of a few of each
Summaries ==
    {Summary(r, EmptyRoot) : r \in RequestMetrics \cup RoundedRequestMetrics}
    \cup {Summary(c, EmptyRoot) : c \in CustomMetrics}
    \cup {Summary(t, EmptyRoot) : t \in TimingMetrics \cup TableMetrics}
    \cup {Summary(<<>>, g) : g \in RootGroups}
    \cup FewSummaries
    \cup {[metrics |-> Absent, root_group |-> Some(EmptyRoot)],
          [metrics |-> Some(<<>>), root_group |-> Absent],
          [metrics |-> Absent, root_group |-> Absent]}

\* option texts and clock readings
TITLE == <<"<", "T", ">", "&", "C", "o">>
SUBTITLE == <<"G", "E", "T", " ", "/", "a", "?", "b", "=", "1", "&", "c", "=", "'", "2", "'">>
METHOD_GET == <<"G", "E", "T">>
METHOD_X == <<"X", "\"", ">", "<", "b", ">">>
KEY_1 == <<"e", "n", "v">>
KEY_2 == <<"<", "k", ">", "&">>
VALUE_1 == <<"\"", "s", "t", "a", "g", "i", "n", "g", "\"", " ", "&", " ", "<", "p", "r", "o", "d", ">">>
CLOCK_1_ISO == <<"2", "0", "2", "6", "-", "1", "1", "-", "0", "4", " ", "2", "3", ":", "3", "7">>
CLOCK_1_LOCALE == <<"1", "1", "/", "4", "/", "2", "0", "2", "6", ",", " ", "1", "1", ":", "3", "7", ":", "0", "5", " ", "P", "M">>
CLOCK_2_ISO == <<"2", "0", "2", "6", "-", "1", "1", "-", "0", "5", " ", "0", "0", ":", "0", "1">>
CLOCK_2_LOCALE == <<"1", "1", "/", "5", "/", "2", "0", "2", "6", ",", " ", "1", "2", ":", "0", "1", ":", "5", "9", " ", "A", "M">>

\* the options: every key absent, empty, or set
InfoEntry(key, value) == [key |-> key, value |-> value]

NoOptions ==
    [title |-> Absent, subtitle |-> Absent, httpMethod |-> Absent,
     additionalInfo |-> Absent, debug |-> Absent]

OptionSets ==
    {[title |-> t, subtitle |-> st, httpMethod |-> m, additionalInfo |-> ai, debug |-> dbg] :
        t \in {Absent, Some(Str(<<>>)), Some(Str(TITLE))},
        st \in {Absent, Some(Str(SUBTITLE))},
        m \in {Absent, Some(Str(METHOD_GET)), Some(Str(METHOD_X))},
        ai \in {Absent, Some(<<>>), Some(<<InfoEntry(KEY_1, Str(VALUE_1))>>),
                Some(<<InfoEntry(KEY_1, Num(MaxCount)), InfoEntry(KEY_2, Str(VALUE_1))>>)},
        dbg \in {Absent, Some(TRUE)}}

\* two readings of the clock
Clock1 == [iso |-> CLOCK_1_ISO, locale |-> CLOCK_1_LOCALE]

TitleOnly == [NoOptions EXCEPT !.title = Some(Str(TITLE))]

Clock2 == [iso |-> CLOCK_2_ISO, locale |-> CLOCK_2_LOCALE]

\* the calls of htmlReport: every summary with no options, and a few
\* summaries with every set of options and at another time
Reports ==
    {[data |-> d, options |-> NoOptions, now |-> Clock1] : d \in Summaries}
    \cup {[data |-> d, options |-> o, now |-> Clock1] : d \in FewSummaries, o \in OptionSets}
    \cup {[data |-> d, options |-> o, now |-> Clock2] :
            d \in FewSummaries, o \in {NoOptions, TitleOnly}}

----------------------------------------------------------------------------
(* The state machine: one call of one function *)

Init ==
    /\ pc = "call"
    /\ escaped = <<>>
    /\ tally = [passes |-> Num(0), fails |-> Num(0)]
    /\ console = <<>>
    /\ stats = DefaultStats
    /\ threw = FALSE
    /\ html = <<>>
    /\ first = Absent
    /\ call \in {"escapeHtml", "countChecks", "htmlReport"}
    /\ text \in IF call = "escapeHtml" THEN Texts ELSE {Undef}
    /\ checks \in IF call = "countChecks" THEN SeqsUpTo(AnyChecks, MaxChecks) ELSE {<<>>}
    /\ \E r \in IF call = "htmlReport" THEN Reports
                ELSE {[data |-> Summary(<<>>, EmptyRoot), options |-> NoOptions,
                       now |-> Clock1]} :
            /\ data = r.data
            /\ options = r.options
            /\ now = r.now

\* escapeHtml(text)
CallEscapeHtml ==
    /\ pc = "call" /\ call = "escapeHtml"
    /\ escaped' = escapeHtml(text)
    /\ pc' = "return"
    /\ UNCHANGED <<call, text, checks, tally, data, options, now, console, stats, threw, html,
                   first>>

\* countChecks(checks)
CallCountChecks ==
    /\ pc = "call" /\ call = "countChecks"
    /\ tally' = countChecks(checks)
    /\ pc' = "return"
    /\ UNCHANGED <<call, text, escaped, checks, data, options, now, console, stats, threw,
                   html, first>>

\* a call that takes the thresholds off the metrics once it has tallied them
CallHtmlReportDroppingThresholds ==
    /\ pc = "call" /\ call = "htmlReport"
    /\ console' = Console(data, options)
    /\ threw' = calculateStatsThrows(data)
    /\ stats' = IF calculateStatsThrows(data) THEN stats ELSE calculateStats(data)
    /\ html' = htmlReportResult(data, options, now)
    /\ data' = IF Has(data.metrics)
               THEN [data EXCEPT !.metrics =
                        Some([i \in 1..Len(Get(data.metrics)) |->
                                [Get(data.metrics)[i] EXCEPT !.thresholds = Absent]])]
               ELSE data
    /\ pc' = "return"
    /\ UNCHANGED <<call, text, escaped, checks, tally, options, now, first>>

\* htmlReport(data, options): the log, then calculateStats, which may throw,
\* then generateModernHTML
CallHtmlReport ==
    /\ pc = "call" /\ call = "htmlReport"
    /\ console' = Console(data, options)
    /\ threw' = calculateStatsThrows(data)
    /\ stats' = IF calculateStatsThrows(data) THEN stats ELSE calculateStats(data)
    /\ html' = htmlReportResult(data, options, now)
    /\ pc' = "return"
    /\ UNCHANGED <<call, text, escaped, checks, tally, data, options, now, first>>

\* htmlReport(data, options) once more, with the same summary, when the
\* clock reads the same or another time and with options.debug as it was
\* or the other way.  The module keeps nothing between two calls: it has
\* no variable outside its functions.
CallHtmlReportAgain ==
    /\ pc = "return" /\ call = "htmlReport" /\ ~Has(first)
    /\ first' = Some([stats |-> stats, threw |-> threw, html |-> html, now |-> now,
                      options |-> options, console |-> console])
    /\ \E clock \in {Clock1, Clock2}, debug \in {Absent, Some(TRUE)} :
            /\ now' = clock
            /\ options' = [options EXCEPT !.debug = debug]
            /\ <<clock, debug>> # <<now, options.debug>>
    /\ console' = console \o Console(data, options')
    /\ threw' = calculateStatsThrows(data)
    /\ stats' = IF calculateStatsThrows(data) THEN DefaultStats ELSE calculateStats(data)
    /\ html' = htmlReportResult(data, options', now')
    /\ UNCHANGED <<call, pc, text, escaped, checks, tally, data>>

Next == CallEscapeHtml \/ CallCountChecks \/ CallHtmlReport \/ CallHtmlReportAgain

Spec == Init /\ [][Next]_vars

----------------------------------------------------------------------------
(* What the claims speak of *)

Returned(f) == pc = "return" /\ call = f /\ ~threw

Range(s) == {s[i] : i \in DOMAIN s}

\* the strings the interpolations put into a part of a document
TextsOf(doc) == {p.v : p \in {q \in Range(doc) : q.k = "text"}}

\* the entities and the characters they stand for
Entities ==
    {[name |-> <<"&", "a", "m", "p", ";">>, char |-> "&"],
     [name |-> <<"&", "l", "t", ";">>, char |-> "<"],
     [name |-> <<"&", "g", "t", ";">>, char |-> ">"],
     [name |-> <<"&", "q", "u", "o", "t", ";">>, char |-> "\""],
     [name |-> <<"&", "#", "0", "3", "9", ";">>, char |-> "'"]}

EntityAt(s, i) ==
    {e \in Entities : i + Len(e.name) - 1 <= Len(s)
                      /\ SubSeq(s, i, i + Len(e.name) - 1) = e.name}

\* s holds none of < > " ' and each & of s begins an entity
WellEscaped(s) ==
    \A i \in 1..Len(s) :
        /\ s[i] \notin {"<", ">", "\"", "'"}
        /\ s[i] = "&" => EntityAt(s, i) # {}

\* s with each entity turned back into its character
RECURSIVE Decode(_)
Decode(s) ==
    IF s = <<>> THEN <<>>
    ELSE IF EntityAt(s, 1) # {}
         THEN LET e == CHOOSE x \in EntityAt(s, 1) : TRUE
              IN  <<e.char>> \o Decode(SubSeq(s, Len(e.name) + 1, Len(s)))
         ELSE <<Head(s)>> \o Decode(Tail(s))

\* the part of doc from the piece start up to, not including, the piece stop
Between(doc, start, stop) ==
    IF IndexOf(doc, start) = 0 THEN <<>>
    ELSE SubSeq(doc, IndexOf(doc, start),
                (IF IndexOf(doc, stop) = 0 THEN Len(doc) + 1 ELSE IndexOf(doc, stop)) - 1)

ChecksPanel == Between(html, M("<div id=checks class=tab-content>"),
                       M("<div id=thresholds class=tab-content>"))

ThresholdsPanel ==
    Between(html, M("<div id=thresholds class=tab-content>"),
            IF IndexOf(html, M("<div id=testinfo class=tab-content>")) = 0
            THEN M("<div class=footer>") ELSE M("<div id=testinfo class=tab-content>"))

TestInfoPanel == Between(html, M("<div id=testinfo class=tab-content>"), M("<div class=footer>"))

\* the sum of f over the sequence xs
RECURSIVE SumOver(_, _)
SumOver(f(_), xs) == IF xs = <<>> THEN 0 ELSE f(xs[Len(xs)]) + SumOver(f, SubSeq(xs, 1, Len(xs) - 1))

OrEmpty(o) == IF Has(o) THEN Get(o) ELSE <<>>

----------------------------------------------------------------------------
(* The claims *)

NoFailures ==
    /\ stats.failedRequests = Num(0)
    /\ stats.checkFailures = Num(0)
    /\ stats.thresholdFailures = Num(0)

\* C1: the report shows the PASS banner and the PASS header background
\* exactly when the derived failedRequests, checkFailures and
\* thresholdFailures are all 0, and the FAIL ones as soon as one of them is not.
C1_StatusIsPassIffNoFailures ==
    Returned("htmlReport") =>
        /\ M("ALL TESTS PASSED") \in Range(html) <=> NoFailures
        /\ M("TESTS FAILED") \in Range(html) <=> ~NoFailures
        /\ M("linear-gradient(135deg, #11998e 0%, #38ef7d 100%)") \in Range(html)
                <=> NoFailures
        /\ M("linear-gradient(135deg, #eb3349 0%, #f45c43 100%)") \in Range(html)
                <=> ~NoFailures

\* a report that fails on a breached threshold alone
C1_Witness ==
    /\ Returned("htmlReport")
    /\ stats.failedRequests = Num(0)
    /\ stats.checkFailures = Num(0)
    /\ stats.thresholdFailures # Num(0)
    /\ M("TESTS FAILED") \in Range(html)

\* C2: every string an interpolation puts into the document is escaped: it
\* holds none of < > " ' and no & that is not the start of an entity.  The
\* title, the subtitle and the HTTP method are among them.
C2_EveryInterpolationEscaped ==
    Returned("htmlReport") => \A t \in TextsOf(html) : WellEscaped(t)

\* the names the checks panel shows: those of the groups of the root group,
\* of their checks and of the checks of the root group
ShownCheckNames ==
    LET root == Get(data.root_group)
        groups == OrEmpty(root.groups)
    IN  {StringOf(groups[i].name) : i \in DOMAIN groups}
        \cup UNION {{StringOf(c.name) : c \in Range(OrEmpty(groups[i].checks))} :
                        i \in DOMAIN groups}
        \cup {StringOf(c.name) : c \in Range(OrEmpty(root.checks))}

\* the names the thresholds panel shows: those of the metrics with thresholds
\* and the threshold expressions
ShownThresholdNames ==
    LET bearing == {m \in Range(Get(data.metrics)) : OrEmpty(m.thresholds) # <<>>}
    IN  {m.name : m \in bearing}
        \cup UNION {{th.name : th \in Range(Get(m.thresholds))} : m \in bearing}

\* the keys and values the test info panel shows
ShownInfo ==
    LET info == OrEmpty(options.additionalInfo)
    IN  {e.key : e \in Range(info)} \cup {StringOf(e.value) : e \in Range(info)}

\* C3: each check name, group name, name of a metric with thresholds,
\* threshold expression and additionalInfo key and value is in its panel in
\* escaped form, and nothing an interpolation put into these panels is raw.
C3_NamesShownEscaped ==
    Returned("htmlReport") =>
        /\ \A t \in TextsOf(ChecksPanel) \cup TextsOf(ThresholdsPanel) \cup TextsOf(TestInfoPanel) :
                WellEscaped(t)
        /\ ShownCheckNames \subseteq {Decode(t) : t \in TextsOf(ChecksPanel)}
        /\ ShownThresholdNames \subseteq {Decode(t) : t \in TextsOf(ThresholdsPanel)}
        /\ ShownInfo \subseteq {Decode(t) : t \in TextsOf(TestInfoPanel)}

HasMarkup(s) == \E i \in 1..Len(s) : s[i] \in EscapeChars

\* a report whose checks, thresholds and test info all have names with markup
C3_Witness ==
    /\ Returned("htmlReport")
    /\ \E n \in ShownCheckNames : HasMarkup(n)
    /\ \E n \in ShownThresholdNames : HasMarkup(n)
    /\ \E n \in ShownInfo : HasMarkup(n)
    /\ T(escapeHtml(Str(VALUE_1))) \in Range(TestInfoPanel)

\* C4: escapeHtml(text) is String(text) with each of & < > " ' replaced by
\* its entity and every other character left in place: the result holds
\* none of < > " ', each & in it begins an entity, and turning the entities
\* back gives String(text).
C4_EscapeReplacesAllFive ==
    Returned("escapeHtml") =>
        /\ WellEscaped(escaped)
        /\ Decode(escaped) = StringOf(text)
        /\ Len(escaped) >= Len(StringOf(text))

\* a string with two characters to replace, one of them an &
C4_Witness ==
    /\ Returned("escapeHtml")
    /\ text.t = "str"
    /\ \E i, j \in 1..Len(text.s) : i < j /\ text.s[i] = "&" /\ text.s[j] \in EscapeChars
    /\ escaped # text.s

\* the thresholds of a metric, none when it has no thresholds key
ThresholdsOf(m) == OrEmpty(m.thresholds)

\* C5: thresholdCount is the number of the metrics with a non-empty
\* thresholds mapping, a metric without thresholds or with an empty mapping
\* adding nothing, and thresholdFailures the number of the threshold
\* expressions whose ok is falsy.
C5_ThresholdTallyPerNonEmptyMetric ==
    Returned("htmlReport") =>
        LET metrics == Get(data.metrics) IN
        /\ stats.thresholdCount
                = Num(Cardinality({i \in DOMAIN metrics : ThresholdsOf(metrics[i]) # <<>>}))
        /\ stats.thresholdFailures
                = Num(SumOver(LAMBDA m : Cardinality({j \in DOMAIN ThresholdsOf(m) :
                                                        ~ThresholdsOf(m)[j].ok}),
                              metrics))

\* the passes and the fails of the checks of a group itself
PassesIn(group) == SumOver(LAMBDA c : c.passes.n, OrEmpty(group.checks))

FailsIn(group) == SumOver(LAMBDA c : c.fails.n, OrEmpty(group.checks))

\* the fails of the checks of the groups inside the groups of the root group
NestedFails ==
    SumOver(LAMBDA g : SumOver(FailsIn, OrEmpty(g.groups)),
            OrEmpty(Get(data.root_group).groups))

\* C6: checkPasses and checkFailures are the passes and fails of
\* root_group.checks plus those of the checks of each entry of
\* root_group.groups; the checks of groups further down change neither them
\* nor totalChecks nor the status of the report.
C6_OnlyRootAndDirectGroups ==
    Returned("htmlReport") =>
        LET root == Get(data.root_group)
            passes == PassesIn(root) + SumOver(PassesIn, OrEmpty(root.groups))
            fails == FailsIn(root) + SumOver(FailsIn, OrEmpty(root.groups))
        IN  /\ stats.checkPasses = Num(passes)
            /\ stats.checkFailures = Num(fails)
            /\ stats.totalChecks = Num(passes + fails)
            /\ M("ALL TESTS PASSED") \in Range(html)
                    <=> /\ fails = 0
                        /\ stats.failedRequests = Num(0)
                        /\ stats.thresholdFailures = Num(0)

\* a report that passes although a check two levels down failed
C6_Witness ==
    /\ Returned("htmlReport")
    /\ NestedFails > 0
    /\ stats.checkPasses # Num(0)
    /\ stats.checkFailures = Num(0)
    /\ M("ALL TESTS PASSED") \in Range(html)

\* the integer a passes or fails field stands for, 0 when it stands for none
IntegerOrZero(v) ==
    CASE v.t = "num" -> v.n
      [] v.t = "str" /\ v.s # <<>> /\ IsDigit(Head(v.s)) -> LeadingDigits(v.s, 0)
      [] OTHER -> 0

\* C7: countChecks returns integer sums for every sequence of checks, a
\* missing and a non-numeric passes or fails counting as 0.
C7_TallyCountsMalformedAsZero ==
    Returned("countChecks") =>
        /\ tally.passes = Num(SumOver(LAMBDA c : IntegerOrZero(c.passes), checks))
        /\ tally.fails = Num(SumOver(LAMBDA c : IntegerOrZero(c.fails), checks))

\* C8: totalChecks = checkPasses + checkFailures in the stats calculateStats
\* returns.
C8_TotalIsPassesPlusFails ==
    Returned("htmlReport") =>
        /\ stats.totalChecks.t = "num" /\ stats.totalChecks.d = 1
        /\ stats.checkPasses.t = "num" /\ stats.checkPasses.d = 1
        /\ stats.checkFailures.t = "num" /\ stats.checkFailures.d = 1
        /\ stats.totalChecks.n = stats.checkPasses.n + stats.checkFailures.n

\* a report with passed and with failed checks
C8_Witness ==
    /\ Returned("htmlReport")
    /\ stats.checkPasses.n > 0
    /\ stats.checkFailures.n > 0
    /\ stats.totalChecks.n > stats.checkPasses.n

IsInteger(v) == v.t = "num" /\ v.d = 1

FailedMetric == MetricAt(Get(data.metrics), http_req_failed)

\* the count of http_reqs, 0 when the metric or its count is absent
RequestCount ==
    LET reqs == {m \in Range(Get(data.metrics)) : m.name = http_reqs /\ Has(m.values.count)}
    IN  IF reqs = {} THEN 0 ELSE Get((CHOOSE m \in reqs : TRUE).values.count).n

\* C9: with http_req_failed present successfulRequests + failedRequests =
\* totalRequests; with it absent both are 0 whatever http_reqs counts.
C9_RequestsAddUp ==
    Returned("htmlReport") =>
        /\ IsInteger(stats.totalRequests)
        /\ IsInteger(stats.failedRequests)
        /\ IsInteger(stats.successfulRequests)
        /\ stats.totalRequests.n = RequestCount
        /\ Has(FailedMetric) =>
                stats.successfulRequests.n + stats.failedRequests.n = stats.totalRequests.n
        /\ ~Has(FailedMetric) =>
                stats.failedRequests.n = 0 /\ stats.successfulRequests.n = 0

\* a report with failed and with successful requests
C9_Witness ==
    /\ Returned("htmlReport")
    /\ Has(FailedMetric)
    /\ stats.failedRequests.n > 0
    /\ stats.successfulRequests.n > 0

\* C10: with http_req_failed.values.rate = r and http_reqs.values.count = n,
\* n being 0 without http_reqs, failedRequests is the integer nearest to r * n,
\* the larger one when two are as near, and successfulRequests is
\* n - failedRequests.
C10_FailedIsRoundedProduct ==
    (Returned("htmlReport") /\ Has(FailedMetric) /\ Has(Get(FailedMetric).values.rate)) =>
        LET r == Get(Get(FailedMetric).values.rate)
            n == RequestCount
            f == stats.failedRequests.n
        IN  /\ IsInteger(stats.failedRequests)
            /\ 2 * r.d * f - r.d <= 2 * r.n * n
            /\ 2 * r.n * n < 2 * r.d * f + r.d
            /\ stats.successfulRequests = Num(n - f)

\* a product r * n half way between two integers
C10_Witness ==
    /\ Returned("htmlReport") /\ Has(FailedMetric) /\ Has(Get(FailedMetric).values.rate)
    /\ LET r == Get(Get(FailedMetric).values.rate)
       IN  /\ 2 * r.n * RequestCount = 2 * r.d * stats.failedRequests.n - r.d
           /\ stats.failedRequests.n > 1

\* the number of hundredths a string of the form d...d.dd denotes
Hundredths(s) == LeadingDigits(SubSeq(s, 1, Len(s) - 3), 0) * 100
                 + LeadingDigits(SubSeq(s, Len(s) - 1, Len(s)), 0)

\* s has the form d...d.dd, without sign and without needless leading zeros
TwoDecimals(s) ==
    /\ Len(s) >= 4
    /\ s[Len(s) - 2] = "."
    /\ \A i \in (1..Len(s)) \ {Len(s) - 2} : IsDigit(s[i])
    /\ Len(s) > 4 => s[1] # "0"

\* the rate calculateStats reads: http_req_failed.values.rate || 0
FailedRate ==
    LET rate == Get(FailedMetric).values.rate
    IN  IF Has(rate) /\ Get(rate).n # 0 THEN Get(rate) ELSE Num(0)

\* C11: with http_req_failed present, errorRate is rate * 100 written with two
\* decimals (the nearest hundredth, the larger one on a tie), successRate is
\* written with two decimals too, and the two written values add up to
\* exactly 100.00.
C11_RatesSumToHundred ==
    (Returned("htmlReport") /\ Has(FailedMetric)) =>
        /\ stats.errorRate.t = "str" /\ TwoDecimals(stats.errorRate.s)
        /\ stats.successRate.t = "str" /\ TwoDecimals(stats.successRate.s)
        /\ LET e == Hundredths(stats.errorRate.s)
               r == FailedRate
           IN  /\ 2 * r.d * e - r.d <= 2 * r.n * 10000
               /\ 2 * r.n * 10000 < 2 * r.d * e + r.d
               /\ e + Hundredths(stats.successRate.s) = 10000

\* a rate whose percentage is rounded up to the hundredth
C11_Witness ==
    /\ Returned("htmlReport") /\ Has(FailedMetric)
    /\ Hundredths(stats.errorRate.s) * FailedRate.d > FailedRate.n * 10000
    /\ Hundredths(stats.successRate.s) > 0

\* how often the piece p is in doc
Count(doc, p) == Cardinality({i \in DOMAIN doc : doc[i] = p})

NoChecksText == M("No checks configured for this test")

NoThresholdsText == M("No thresholds configured for this test")

\* C12: for the summary with metrics = {} and root_group = {checks: [],
\* groups: []} every field of the stats is 0, the checks panel is the one
\* 'No checks configured for this test' placeholder and the thresholds panel
\* shows 'No thresholds configured for this test' and no result.
C12_EmptySummaryGivesDefaults ==
    (Returned("htmlReport") /\ data = Summary(<<>>, EmptyRoot)) =>
        /\ \A f \in DOMAIN stats : stats[f] = Num(0)
        /\ ChecksPanel = <<M("<div id=checks class=tab-content>"),
                            M("<div class=chart-container>"), M("<p style=color: #6c757d;>"),
                            NoChecksText, M("</p>"), M("</div>"), M("</div>")>>
        /\ Count(ThresholdsPanel, NoThresholdsText) = 1
        /\ TextsOf(ThresholdsPanel) = {}
        /\ \A p \in Range(ThresholdsPanel) :
                p \notin {M("<i class=fas fa-check></i> PASSED"),
                          M("<i class=fas fa-times></i> FAILED"), M("Passed"), M("Failed")}

\* the report of the empty summary
C12_Witness ==
    /\ Returned("htmlReport")
    /\ data = Summary(<<>>, EmptyRoot)
    /\ NoChecksText \in Range(html)
    /\ NoThresholdsText \in Range(html)

MetricsPanel == Between(html, M("<div id=metrics class=tab-content>"),
                        M("<div id=checks class=tab-content>"))

\* the value 0, as a number or written out
IsZero(v) == ToNumber(v).t = "num" /\ ToNumber(v).n = 0

\* the fields of the stats and the value of the summary each one is read from
StatSources ==
    {[field |-> "totalRequests", metric |-> http_reqs, sub |-> "count"],
     [field |-> "failedRequests", metric |-> http_req_failed, sub |-> "rate"],
     [field |-> "errorRate", metric |-> http_req_failed, sub |-> "rate"],
     [field |-> "avgResponseTime", metric |-> http_req_duration, sub |-> "avg"],
     [field |-> "p95ResponseTime", metric |-> http_req_duration, sub |-> "p95"],
     [field |-> "maxResponseTime", metric |-> http_req_duration, sub |-> "max"],
     [field |-> "minResponseTime", metric |-> http_req_duration, sub |-> "min"],
     [field |-> "maxVUs", metric |-> vus, sub |-> "max"],
     [field |-> "avgVUs", metric |-> vus, sub |-> "avg"],
     [field |-> "iterations", metric |-> iterations, sub |-> "count"],
     [field |-> "dataReceived", metric |-> data_received, sub |-> "count"],
     [field |-> "dataSent", metric |-> data_sent, sub |-> "count"]}

\* the metric is absent from the summary, or its values lack the sub-field
MissingAt(src) ==
    LET m == MetricAt(Get(data.metrics), src.metric)
    IN  ~Has(m) \/ ~Has(Get(m).values[src.sub])

\* the six cells of the row of the metric called name, when it has a row
CellsOf(name) ==
    LET i == IndexOf(MetricsPanel, T(name))
    IN  IF i = 0 THEN <<>> ELSE [k \in 1..6 |-> MetricsPanel[i + 3 * k].v]

\* C13: a summary with metrics and root_group is rendered without a fault,
\* and what is missing counts as 0: a stats field whose metric or sub-field
\* is absent is 0, the tallies of absent thresholds, checks and groups are
\* 0, and a table row of a metric without values shows 0.00 in every cell.
C13_MissingDataIsZero ==
    (pc = "return" /\ call = "htmlReport" /\ Has(data.metrics) /\ Has(data.root_group)) =>
        /\ ~threw
        /\ \A src \in StatSources : MissingAt(src) => IsZero(stats[src.field])
        /\ (\A m \in Range(Get(data.metrics)) : ~Has(m.thresholds)) =>
                IsZero(stats.thresholdCount) /\ IsZero(stats.thresholdFailures)
        /\ (~Has(Get(data.root_group).checks) /\ ~Has(Get(data.root_group).groups)) =>
                IsZero(stats.totalChecks)
        /\ \A m \in Range(Get(data.metrics)) :
                (m.values = NoValues /\ CellsOf(m.name) # <<>>) =>
                    \A k \in 1..6 : CellsOf(m.name)[k] = <<"0", ".", "0", "0">>

\* C14: for a summary without the metrics key or without the root_group key
\* calculateStats throws, the error reaches the caller of htmlReport, and no
\* document, not even a part of one, is returned.
C14_StructuralFailureIsFatal ==
    (pc = "return" /\ call = "htmlReport"
     /\ (~Has(data.metrics) \/ ~Has(data.root_group))) =>
        /\ threw
        /\ html = <<>>
        /\ stats = DefaultStats

\* a summary with metrics and without root_group has made the call throw
C14_Witness ==
    /\ pc = "return" /\ call = "htmlReport"
    /\ Has(data.metrics) /\ ~Has(data.root_group)
    /\ threw

\* the groups of the root group
RootGroupsOf(d) == OrEmpty(Get(d.root_group).groups)

\* neither the root group nor one of its groups has a check
NoChecksAnywhere ==
    /\ OrEmpty(Get(data.root_group).checks) = <<>>
    /\ \A g \in Range(RootGroupsOf(data)) : OrEmpty(g.checks) = <<>>

\* C15: when neither the root group nor any of its groups has a check, the
\* checks panel is the one 'No checks configured for this test' placeholder,
\* with no group block and no 'Other Checks' block.
C15_NoChecksGivesPlaceholder ==
    (Returned("htmlReport") /\ NoChecksAnywhere) =>
        /\ Count(ChecksPanel, NoChecksText) = 1
        /\ M("<i class=fas fa-layer-group></i> Group: ") \notin Range(ChecksPanel)
        /\ M("<i class=fas fa-list-check></i> Other Checks") \notin Range(ChecksPanel)

\* the places of the piece p in doc, in order
Positions(doc, p) == SelectSeq([i \in 1..Len(doc) |-> i], LAMBDA i : doc[i] = p)

GroupMark == M("<i class=fas fa-layer-group></i> Group: ")

OtherMark == M("<i class=fas fa-list-check></i> Other Checks")

\* the check names a part of the checks panel lists, decoded, in order
CheckNamesIn(part) ==
    LET at == Positions(part, M("<div class=check-name>"))
    IN  [k \in 1..Len(at) |-> Decode(part[at[k] + 1].v)]

NamesOf(cs) == [j \in 1..Len(cs) |-> StringOf(cs[j].name)]

\* the k-th group block of the checks panel: from its heading, at[k], up to
\* the next group heading, the 'Other Checks' heading or the end
GroupPart(panel, at, other, k) ==
    LET last == IF k < Len(at) THEN at[k + 1]
                ELSE IF other # <<>> THEN other[1] ELSE Len(panel) + 1
    IN  SubSeq(panel, at[k], last - 1)

\* C16: the checks panel has one block per entry of root_group.groups, in
\* that order, titled with the name of the group and listing its checks in
\* order, or 'No checks in this group' when it has none; an 'Other Checks'
\* block with the checks of the root group follows all of them exactly when
\* root_group.checks is not empty.
C16_OneBlockPerGroupThenOthers ==
    Returned("htmlReport") =>
        LET groups == RootGroupsOf(data)
            rootChecks == OrEmpty(Get(data.root_group).checks)
            panel == ChecksPanel
            at == Positions(panel, GroupMark)
            other == Positions(panel, OtherMark)
        IN  /\ Len(at) = Len(groups)
            /\ \A k \in 1..Len(at) :
                    LET part == GroupPart(panel, at, other, k)
                    IN  /\ Decode(panel[at[k] + 1].v) = StringOf(groups[k].name)
                        /\ CheckNamesIn(part) = NamesOf(OrEmpty(groups[k].checks))
                        /\ M("No checks in this group") \in Range(part)
                                <=> OrEmpty(groups[k].checks) = <<>>
            /\ Len(other) = (IF rootChecks # <<>> THEN 1 ELSE 0)
            /\ rootChecks # <<>> =>
                    /\ \A k \in 1..Len(at) : at[k] < other[1]
                    /\ CheckNamesIn(SubSeq(panel, other[1], Len(panel))) = NamesOf(rootChecks)

\* two groups, one of them without checks, and checks of the root group
C16_Witness ==
    /\ Returned("htmlReport")
    /\ Len(RootGroupsOf(data)) = 2
    /\ OrEmpty(RootGroupsOf(data)[1].checks) # <<>>
    /\ OrEmpty(RootGroupsOf(data)[2].checks) = <<>>
    /\ Len(OrEmpty(Get(data.root_group).checks)) = 2
    /\ Len(Positions(ChecksPanel, GroupMark)) = 2
    /\ OtherMark \in Range(ChecksPanel)

\* the thresholds of the summary, metric by metric, in order
ThresholdsOfSummary ==
    LET metrics == Get(data.metrics)
    IN  Concat([i \in 1..Len(metrics) |->
                    [j \in 1..Len(OrEmpty(metrics[i].thresholds)) |->
                        [metric |-> metrics[i].name,
                         expr |-> Get(metrics[i].thresholds)[j].name,
                         passed |-> Get(metrics[i].thresholds)[j].ok]]])

\* the result rows of the thresholds panel, read back: a row starts with a
\* check-item and holds the metric name, the expression and a badge
ThresholdRowsShown(panel) ==
    LET at == SelectSeq([i \in 1..Len(panel) |-> i],
                        LAMBDA i : panel[i] \in
                            {M("<div class=check-item style=border-left: 4px solid #28a745;>"),
                             M("<div class=check-item style=border-left: 4px solid #dc3545;>")})
    IN  [k \in 1..Len(at) |->
            [metric |-> Decode(panel[at[k] + 4].v),
             expr |-> Decode(panel[at[k] + 7].v),
             passed |-> panel[at[k] + 12] = M("<i class=fas fa-check></i> PASSED"),
             failed |-> panel[at[k] + 12] = M("<i class=fas fa-times></i> FAILED"),
             at |-> at[k]]]

\* a metric carries thresholds when it has the key, whatever is under it
SomeMetricCarriesThresholds == \E m \in Range(Get(data.metrics)) : Has(m.thresholds)

\* C17: the thresholds panel shows 'No thresholds configured for this test'
\* exactly when no metric carries thresholds.  Otherwise it shows one row per
\* threshold expression of each such metric, in order, with the badge PASSED
\* when ok is truthy and FAILED when it is not, after the two cells with the
\* numbers of passed and of failed thresholds.
C17_ThresholdsPanelShowsEachResult ==
    Returned("htmlReport") =>
        LET panel == ThresholdsPanel
            want == ThresholdsOfSummary
            rows == ThresholdRowsShown(panel)
            passedAt == IndexOf(panel, M("Passed"))
            failedAt == IndexOf(panel, M("Failed"))
        IN  /\ Count(panel, NoThresholdsText) = (IF SomeMetricCarriesThresholds THEN 0 ELSE 1)
            /\ Len(rows) = Len(want)
            /\ \A k \in 1..Len(rows) :
                    /\ rows[k].metric = want[k].metric
                    /\ rows[k].expr = want[k].expr
                    /\ rows[k].passed = want[k].passed
                    /\ rows[k].failed = ~want[k].passed
            /\ IF SomeMetricCarriesThresholds
               THEN /\ passedAt # 0 /\ failedAt # 0 /\ passedAt < failedAt
                    /\ \A k \in 1..Len(rows) : failedAt < rows[k].at
                    /\ panel[passedAt - 3]
                            = T(NatToString(Cardinality({k \in 1..Len(want) : want[k].passed})))
                    /\ panel[failedAt - 3]
                            = T(NatToString(Cardinality({k \in 1..Len(want) : ~want[k].passed})))
               ELSE passedAt = 0 /\ failedAt = 0

\* two metrics with thresholds, passed and failed ones among them
C17_Witness ==
    /\ Returned("htmlReport")
    /\ Cardinality({m \in Range(Get(data.metrics)) : OrEmpty(m.thresholds) # <<>>}) = 2
    /\ \E k \in 1..Len(ThresholdsOfSummary) : ThresholdsOfSummary[k].passed
    /\ \E k \in 1..Len(ThresholdsOfSummary) : ~ThresholdsOfSummary[k].passed
    /\ Len(ThresholdRowsShown(ThresholdsPanel)) >= 3

TestInfoButton == M("<button class=tab-button onclick=switchTab(event, 'testinfo')>")

TestInfoOpen == M("<div id=testinfo class=tab-content>")

\* the rows of the test info panel, read back: key and value, decoded
InfoRowsShown(panel) ==
    LET at == Positions(panel, M("<tr>"))
    IN  [k \in 1..Len(at) |->
            [key |-> Decode(panel[at[k] + 3].v), value |-> Decode(panel[at[k] + 6].v)]]

\* C18: the Test Info tab button and the Test Info panel are in the document
\* when additionalInfo has an entry, and neither is when it is empty or not
\* given; the panel has one row per entry, in the order of the entries.
C18_TestInfoOnlyWithEntries ==
    Returned("htmlReport") =>
        LET info == OrEmpty(options.additionalInfo)
            rows == InfoRowsShown(TestInfoPanel)
        IN  /\ Count(html, TestInfoButton) = (IF Len(info) > 0 THEN 1 ELSE 0)
            /\ Count(html, TestInfoOpen) = (IF Len(info) > 0 THEN 1 ELSE 0)
            /\ M("<i class=fas fa-info-circle></i> Test Info") \in Range(html) <=> Len(info) > 0
            /\ Len(rows) = Len(info)
            /\ \A k \in 1..Len(rows) :
                    /\ rows[k].key = info[k].key
                    /\ rows[k].value = StringOf(info[k].value)

\* a report with two entries of additionalInfo
C18_Witness ==
    /\ Returned("htmlReport")
    /\ Len(OrEmpty(options.additionalInfo)) = 2
    /\ TestInfoButton \in Range(html)
    /\ Len(InfoRowsShown(TestInfoPanel)) = 2

\* the names in the first cell of the rows of the metrics table, in order
MetricNamesShown(panel) ==
    LET at == Positions(panel, M("<td><strong>"))
    IN  [k \in 1..Len(at) |-> panel[at[k] + 1].v]

\* the metrics the table may show, in the order it shows them
AllowList ==
    <<http_req_duration, http_req_waiting, http_req_connecting, http_req_tls_handshaking,
      http_req_sending, http_req_receiving, http_req_blocked, iteration_duration>>

InSummary(name) == \E m \in Range(Get(data.metrics)) : m.name = name

\* C19: the metrics table has one row for each metric of the list
\* http_req_duration, http_req_waiting, http_req_connecting,
\* http_req_tls_handshaking, http_req_sending, http_req_receiving,
\* http_req_blocked, iteration_duration that the summary has, in the order of
\* the list; a metric the summary lacks and a metric outside the list have
\* no row.
C19_TableRowsFollowAllowList ==
    Returned("htmlReport") =>
        LET panel == MetricsPanel
        IN  /\ MetricNamesShown(panel) = SelectSeq(AllowList, InSummary)
            /\ Count(panel, M("<tr>")) = 1 + Len(SelectSeq(AllowList, InSummary))

\* a summary that has two metrics of the list in the other order, or one of
\* them next to a metric outside the list
C19_Witness ==
    /\ Returned("htmlReport")
    /\ Len(Get(data.metrics)) = 2
    /\ Get(data.metrics)[1].name = iteration_duration
    /\ Get(data.metrics)[2].name = http_req_duration
    /\ MetricNamesShown(MetricsPanel) = <<http_req_duration, iteration_duration>>

GeneratedMark == M("<i class=far fa-clock></i> Generated: ")

\* doc with the time after 'Generated: ' blanked
WithoutTimestamp(doc) ==
    [i \in 1..Len(doc) |-> IF i > 1 /\ doc[i - 1] = GeneratedMark THEN T(<<>>) ELSE doc[i]]

\* options.title is given and is not the empty string
TitleFixed == Has(options.title) /\ Truthy(Get(options.title))

\* C20: a second call of htmlReport with the same summary and the same
\* options at another time ends as the first one did; calculateStats returns
\* the same stats, whatever the time and whatever was called before; and
\* with a title given the two documents are the same but for the time
\* written after 'Generated: '.
C20_SecondCallGivesSameReport ==
    (pc = "return" /\ call = "htmlReport" /\ Has(first)
        /\ options = Get(first).options) =>
        /\ threw = Get(first).threw
        /\ ~threw => stats = Get(first).stats
        /\ (~threw /\ TitleFixed) =>
                WithoutTimestamp(html) = WithoutTimestamp(Get(first).html)

\* two reports with a title, made at different times, that differ
C20_Witness ==
    /\ Returned("htmlReport") /\ Has(first)
    /\ options = Get(first).options
    /\ TitleFixed
    /\ now # Get(first).now
    /\ html # Get(first).html
    /\ stats.totalChecks.n > 0

\* C21: no step changes the summary: after htmlReport has returned or thrown,
\* data, with its metrics, thresholds, root_group, checks and groups, is what
\* it was before the call.
C21_SummaryIsNeverMutated == [][data' = data]_vars

\* a call has returned for a summary with thresholds, checks and groups
C21_Witness ==
    /\ Returned("htmlReport")
    /\ \E m \in Range(Get(data.metrics)) : OrEmpty(m.thresholds) # <<>>
    /\ OrEmpty(Get(data.root_group).checks) # <<>>
    /\ RootGroupsOf(data) # <<>>
    /\ html # <<>>

\* options.debug is on
DebugOn(opts) == Has(opts.debug) /\ Get(opts.debug)

\* the two calls differ in options.debug and in no other option
OnlyDebugDiffers ==
    /\ Has(first)
    /\ DebugOn(options) # DebugOn(Get(first).options)
    /\ [options EXCEPT !.debug = Get(first).options.debug] = Get(first).options

\* the console.log calls of the second call
SecondConsole == SubSeq(console, Len(Get(first).console) + 1, Len(console))

\* the console.log calls that are handed the summary
Dumps(log) == SelectSeq(log, LAMBDA e : Has(e.arg))

\* C22: two calls with the same summary whose options differ in debug only
\* end the same way with the same stats; at the same time they return the
\* same document, and at different times, with a title given, documents
\* that are the same but for the time after 'Generated: '.  The call with
\* debug on logs the summary once, the other call does not, and the rest of
\* what they log is the same.
C22_DebugOnlyLogs ==
    (pc = "return" /\ call = "htmlReport" /\ OnlyDebugDiffers) =>
        /\ threw = Get(first).threw
        /\ stats = Get(first).stats
        /\ now = Get(first).now => html = Get(first).html
        /\ (~threw /\ TitleFixed) =>
                WithoutTimestamp(html) = WithoutTimestamp(Get(first).html)
        /\ Dumps(IF DebugOn(options) THEN SecondConsole ELSE Get(first).console)
                = <<[msg |-> "JSON.stringify(data, null, 2)", arg |-> Some(data)]>>
        /\ Dumps(IF DebugOn(options) THEN Get(first).console ELSE SecondConsole) = <<>>
        /\ SelectSeq(SecondConsole, LAMBDA e : ~Has(e.arg))
                = SelectSeq(Get(first).console, LAMBDA e : ~Has(e.arg))

\* a call with debug on after a call without it at the same time, both
\* returning a document with checks and thresholds in it
C22_Witness ==
    /\ Returned("htmlReport") /\ OnlyDebugDiffers
    /\ DebugOn(options)
    /\ now = Get(first).now
    /\ html # <<>>
    /\ Len(console) = 3
    /\ stats.totalChecks.n > 0
    /\ stats.thresholdCount.n > 0

\* the characters of a template literal text
Chars(label) == [i \in 1..Len(label) |-> SubSeq(label, i, i)]

\* the characters a piece puts into the document
CharsOf(piece) == IF piece.k = "markup" THEN Chars(piece.v[1]) ELSE piece.v

\* the elements that have no end tag
VoidElements ==
    {<<"m", "e", "t", "a">>, <<"l", "i", "n", "k">>,
     <<"!", "D", "O", "C", "T", "Y", "P", "E">>}

\* the first index from lo on of a character of cs in chars, 0 when there is none
FirstOf(chars, lo, cs) ==
    LET hits == {i \in lo..Len(chars) : chars[i] \in cs}
    IN  IF hits = {} THEN 0 ELSE CHOOSE i \in hits : \A j \in hits : i <= j

\* reading tags: t.mode says whether the reader is outside a tag ("text"),
\* in the name of a tag or after the name; t.name is the name read, with
\* the / of an end tag; t.tags are the names of the tags that have ended.
\* Tokens is the reader after the characters of chars from lo on.
RECURSIVE Tokens(_, _, _)
Tokens(t, chars, lo) ==
    IF lo > Len(chars) THEN t
    ELSE CASE t.mode = "text" ->
                LET at == FirstOf(chars, lo, {"<"})
                IN  IF at = 0 THEN t
                    ELSE Tokens([t EXCEPT !.mode = "name", !.name = <<>>], chars, at + 1)
           [] t.mode = "name" ->
                LET at == FirstOf(chars, lo, {" ", ">"})
                    name == t.name \o SubSeq(chars, lo, (IF at = 0 THEN Len(chars) + 1 ELSE at) - 1)
                IN  IF at = 0 THEN [t EXCEPT !.name = name]
                    ELSE IF chars[at] = ">"
                    THEN Tokens([mode |-> "text", name |-> name, tags |-> Append(t.tags, name)],
                                chars, at + 1)
                    ELSE Tokens([t EXCEPT !.mode = "attributes", !.name = name], chars, at + 1)
           [] OTHER ->
                LET at == FirstOf(chars, lo, {">"})
                IN  IF at = 0 THEN t
                    ELSE Tokens([t EXCEPT !.mode = "text", !.tags = Append(t.tags, t.name)],
                                chars, at + 1)

\* the template literal texts of the documents
AllLabels ==
    UNION {{p.v[1] : p \in {q \in Range(htmlReportResult(r.data, r.options, r.now)) :
                                q.k = "markup"}} : r \in Reports}

\* the tags of each of them, read from outside a tag
LabelTokens ==
    [l \in AllLabels |-> Tokens([mode |-> "text", name |-> <<>>, tags |-> <<>>], Chars(l), 1)]

\* the tags of a piece for a reader in mode with the name read so far
PieceTokens(mode, name, piece) ==
    IF piece.k = "markup" /\ mode = "text" THEN LabelTokens[piece.v[1]]
    ELSE Tokens([mode |-> mode, name |-> name, tags |-> <<>>], CharsOf(piece), 1)

\* the elements that are open, innermost last, and ok until an end tag
\* comes that does not close the innermost open element
StartOfScan == [mode |-> "text", name |-> <<>>, open |-> <<>>, ok |-> TRUE]

\* the open elements after one more tag
AfterTag(s, name) ==
    IF name # <<>> /\ name[1] = "/"
    THEN IF s.open # <<>> /\ s.open[Len(s.open)] = Tail(name)
         THEN [s EXCEPT !.open = SubSeq(s.open, 1, Len(s.open) - 1)]
         ELSE [s EXCEPT !.ok = FALSE]
    ELSE IF name \in VoidElements THEN s
         ELSE [s EXCEPT !.open = Append(s.open, name)]

RECURSIVE AfterTags(_, _, _)
AfterTags(s, tags, i) ==
    IF i > Len(tags) \/ ~s.ok THEN s ELSE AfterTags(AfterTag(s, tags[i]), tags, i + 1)

\* the reader after one piece
ScanPiece(s, piece) ==
    LET t == PieceTokens(s.mode, s.name, piece)
    IN  [AfterTags(s, t.tags, 1) EXCEPT !.mode = t.mode, !.name = t.name]

\* the reader after the pieces lo..hi of doc
RECURSIVE ScanPieces(_, _, _, _)
ScanPieces(s, doc, lo, hi) ==
    IF lo > hi \/ ~s.ok THEN s
    ELSE IF lo = hi THEN ScanPiece(s, doc[lo])
    ELSE LET mid == (lo + hi) \div 2
             left == ScanPieces(s, doc, lo, mid)
         IN  IF left.ok THEN ScanPieces(left, doc, mid + 1, hi) ELSE left

\* every element opened in doc is closed in doc, innermost first, and no
\* end tag of doc is without its start tag
Balanced(doc) ==
    LET s == ScanPieces(StartOfScan, doc, 1, Len(doc))
    IN  s.ok /\ s.open = <<>> /\ s.mode = "text"

\* the subtitle line shows a method with a markup character in it (line 670
\* writes the method as it is given)
MethodWithMarkupShown ==
    /\ Truthy(Subtitle(options))
    /\ Truthy(HttpMethod(options))
    /\ HasMarkup(HttpMethod(options).s)

PanelOpens ==
    {M("<div id=overview class=tab-content active>"), M("<div id=metrics class=tab-content>"),
     M("<div id=checks class=tab-content>"), M("<div id=thresholds class=tab-content>"),
     TestInfoOpen}

\* the indices in S, ascending
RECURSIVE Ascending(_)
Ascending(S) ==
    IF S = {} THEN <<>>
    ELSE LET least == CHOOSE i \in S : \A j \in S : i <= j
         IN  <<least>> \o Ascending(S \ {least})

\* where the panels of doc start, followed by where its footer starts
PanelMarks(doc) ==
    Ascending({i \in 1..Len(doc) : doc[i] \in PanelOpens \cup {M("<div class=footer>")}})

\* the panels of doc: each one from its start tag up to the start tag of
\* the next, the last one up to the end tag of the tabs container
PanelsOf(doc) ==
    LET at == PanelMarks(doc)
    IN  [k \in 1..(Len(at) - 1) |->
            SubSeq(doc, at[k], at[k + 1] - (IF k + 1 < Len(at) THEN 1 ELSE 2))]

PanelsShown == PanelsOf(html)

\* what the section builder returned into a panel
SectionOf(panel) == SubSeq(panel, 2, Len(panel) - 1)

\* the tabs container of doc, its end tag included
TabsOf(doc) ==
    LET from == Positions(doc, M("<div class=tabs-container>"))
        to == Positions(doc, M("<div class=footer>"))
    IN  SubSeq(doc, from[1], to[1] - 1)

C23_AllSectionsShown ==
    /\ Returned("htmlReport") /\ ~Has(first)
    /\ Len(PanelsShown) = 5
    /\ GroupMark \in Range(PanelsShown[3]) /\ OtherMark \in Range(PanelsShown[3])
    /\ Len(ThresholdRowsShown(PanelsShown[4])) > 0
    /\ Truthy(Subtitle(options)) /\ Truthy(HttpMethod(options))
    /\ ~MethodWithMarkupShown

\* the checks the checks section goes through: those of each group of the
\* root group, group by group, then those of the root group
ChecksGoneThrough(d) ==
    LET groups == RootGroupsOf(d)
    IN  Concat([i \in 1..Len(groups) |-> OrEmpty(groups[i].checks)])
        \o OrEmpty(Get(d.root_group).checks)

PassBadge == M("<span class=badge badge-success>")

FailBadge == M("<span class=badge badge-error>")

\* the k-th item of the checks panel: from its start tag, at[k], up to the
\* next item or the end
CheckItemShown(panel, at, k) ==
    SubSeq(panel, at[k], (IF k < Len(at) THEN at[k + 1] ELSE Len(panel) + 1) - 1)

\* C24: the checks panel has one item per check of the groups and of the
\* root group; each item has one pass badge, reading '<passes> passed',
\* and it has a fail badge, one, reading '<fails> failed', exactly when
\* the fails of its check are greater than 0.
C24_FailBadgeOnlyOnFails ==
    Returned("htmlReport") =>
        LET panel == ChecksPanel
            at == Positions(panel, M("<div class=check-item>"))
            cs == ChecksGoneThrough(data)
        IN  /\ Len(at) = Len(cs)
            /\ Count(panel, PassBadge) = Len(at)
            /\ \A k \in 1..Len(at) :
                    LET item == CheckItemShown(panel, at, k)
                        failing == cs[k].fails.t = "num" /\ cs[k].fails.n > 0
                    IN  /\ item[6] = PassBadge
                        /\ item[8] = T(StringOf(cs[k].passes))
                        /\ item[9] = M(" passed")
                        /\ Count(item, PassBadge) = 1
                        /\ Count(item, FailBadge) = (IF failing THEN 1 ELSE 0)
                        /\ failing =>
                                /\ item[11] = FailBadge
                                /\ item[13] = T(StringOf(cs[k].fails))
                                /\ item[14] = M(" failed")

\* a report with a group block and an 'Other Checks' block, with checks that
\* failed and a check that did not
C24_Witness ==
    /\ Returned("htmlReport")
    /\ GroupMark \in Range(ChecksPanel) /\ OtherMark \in Range(ChecksPanel)
    /\ Count(ChecksPanel, PassBadge) >= 3
    /\ Count(ChecksPanel, FailBadge) >= 1
    /\ Count(ChecksPanel, FailBadge) < Count(ChecksPanel, PassBadge)

\* C25: when a metric carries thresholds, the cell 'Failed' of the
\* thresholds panel shows stats.thresholdFailures, the numbers in the cells
\* 'Passed' and 'Failed' add up to the number of threshold expressions of
\* all metrics, and the panel has that many result rows.  When no metric
\* does, there are no cells and no rows and stats.thresholdFailures is 0.
C25_PanelCountsAgreeWithStats ==
    Returned("htmlReport") =>
        LET panel == ThresholdsPanel
            expressions == Len(ThresholdsOfSummary)
            rows == Len(ThresholdRowsShown(panel))
            passedAt == IndexOf(panel, M("Passed"))
            failedAt == IndexOf(panel, M("Failed"))
        IN  /\ rows = expressions
            /\ stats.thresholdFailures.t = "num" /\ stats.thresholdFailures.d = 1
            /\ IF SomeMetricCarriesThresholds
               THEN /\ passedAt > 3 /\ failedAt > 3
                    /\ panel[failedAt - 3] = T(NatToString(stats.thresholdFailures.n))
                    /\ \E p \in 0..expressions :
                            /\ panel[passedAt - 3] = T(NatToString(p))
                            /\ p + stats.thresholdFailures.n = expressions
               ELSE /\ passedAt = 0 /\ failedAt = 0
                    /\ expressions = 0
                    /\ stats.thresholdFailures.n = 0

\* a report of a metric with two failed thresholds and a metric with a
\* passed one
C25_Witness ==
    /\ Returned("htmlReport")
    /\ \E m \in Range(Get(data.metrics)) :
            Len(OrEmpty(m.thresholds)) = 2 /\ \A t \in Range(OrEmpty(m.thresholds)) : ~t.ok
    /\ \E m \in Range(Get(data.metrics)) : \E t \in Range(OrEmpty(m.thresholds)) : t.ok
    /\ stats.thresholdFailures.n = 2
    /\ Len(ThresholdRowsShown(ThresholdsPanel)) = 3
    /\ M("Failed") \in Range(ThresholdsPanel)

\* the Thresholds card of the document: the number in its value and the
\* number after 'of ' in its line '... of ... breached'
ThresholdsCard ==
    LET at == IndexOf(html, M("of "))
    IN  [breached |-> html[at - 3], total |-> html[at + 1], last |-> html[at + 2]]

\* the Thresholds card shows stats.thresholdFailures of stats.thresholdCount
ThresholdsCardShowsStats ==
    Returned("htmlReport") =>
        /\ ThresholdsCard.breached = T(StringOf(stats.thresholdFailures))
        /\ ThresholdsCard.total = T(StringOf(stats.thresholdCount))
        /\ ThresholdsCard.last = M(" breached")

\* C26: the Thresholds card shows stats.thresholdFailures of
\* stats.thresholdCount breached, and the first number is never greater than
\* the second one.
C26_BreachedNeverExceedsTotal ==
    Returned("htmlReport") =>
        /\ ThresholdsCard.breached = T(StringOf(stats.thresholdFailures))
        /\ ThresholdsCard.total = T(StringOf(stats.thresholdCount))
        /\ stats.thresholdFailures.n <= stats.thresholdCount.n

\* the checks calculateStats counts: those of the root group and those of
\* each group of the root group
ChecksCounted(d) ==
    LET groups == RootGroupsOf(d)
    IN  OrEmpty(Get(d.root_group).checks)
        \o Concat([i \in 1..Len(groups) |-> OrEmpty(groups[i].checks)])

\* the items of the checks panel, read back: the name, decoded, the number
\* before 'passed' and the number before 'failed', 0 without a fail badge
CheckItemsShown(panel) ==
    LET at == Positions(panel, M("<div class=check-item>"))
    IN  [k \in 1..Len(at) |->
            LET item == CheckItemShown(panel, at, k)
            IN  [name |-> Decode(item[3].v),
                 passes |-> ParseUnsigned(item[8].v),
                 fails |-> IF FailBadge \in Range(item) THEN ParseUnsigned(item[13].v)
                           ELSE Num(0)]]

\* how many times each element of xs is in xs
TimesIn(xs) == [x \in Range(xs) |-> Count(xs, x)]

\* C27: the items of the checks panel are the checks calculateStats counts,
\* each of them once: the same names with the same passes and fails, as
\* many times; and the passes and fails shown add up to stats.totalChecks.
C27_PanelAndTallyCoverSameChecks ==
    Returned("htmlReport") =>
        LET shown == CheckItemsShown(ChecksPanel)
            counted == [k \in 1..Len(ChecksCounted(data)) |->
                            [name |-> StringOf(ChecksCounted(data)[k].name),
                             passes |-> ChecksCounted(data)[k].passes,
                             fails |-> ChecksCounted(data)[k].fails]]
        IN  /\ Len(shown) = Len(counted)
            /\ TimesIn(shown) = TimesIn(counted)
            /\ stats.totalChecks = Num(SumOver(LAMBDA c : c.passes.n + c.fails.n, shown))

\* a report with checks in the root group and in a group, some of them
\* failed, and a check that is there twice
C27_Witness ==
    /\ Returned("htmlReport")
    /\ OrEmpty(Get(data.root_group).checks) # <<>>
    /\ \E g \in Range(RootGroupsOf(data)) :
            /\ Len(OrEmpty(g.checks)) = 2
            /\ OrEmpty(g.checks)[1] = OrEmpty(g.checks)[2]
    /\ Len(CheckItemsShown(ChecksPanel)) >= 4
    /\ stats.checkFailures.n > 0
    /\ stats.totalChecks.n >= 8

\* the error rate the overview shows, in its 'Error Rate' bar, is above 0.00
ErrorRateShownAboveZero ==
    /\ stats.errorRate.t = "str" /\ TwoDecimals(stats.errorRate.s)
    /\ Hundredths(stats.errorRate.s) > 0
    /\ \E i \in 1..Len(html) :
            /\ html[i] = M("<span class=metric-value-bad>")
            /\ html[i + 1] = T(stats.errorRate.s)

\* C28: when http_req_failed has a rate above 0 and http_reqs counts at
\* least one request, the banner is TESTS FAILED; and ALL TESTS PASSED is
\* never in a document that shows an error rate above 0.00%.
C28_FailedRateMeansFailBanner ==
    Returned("htmlReport") =>
        /\ (Has(FailedMetric) /\ FailedRate.n > 0 /\ RequestCount >= 1) =>
                /\ M("TESTS FAILED") \in Range(html)
                /\ M("ALL TESTS PASSED") \notin Range(html)
        /\ ErrorRateShownAboveZero => M("ALL TESTS PASSED") \notin Range(html)

\* the rate of http_req_failed times the count of http_reqs is a whole
\* number of requests, as it is when both come from the same requests
RateMatchesCount == (FailedRate.n * RequestCount) % FailedRate.d = 0

\* with such a rate above 0 the banner is TESTS FAILED
FailedRateOfCountedRequestsFails ==
    (Returned("htmlReport") /\ Has(FailedMetric) /\ FailedRate.n > 0 /\ RequestCount >= 1
        /\ RateMatchesCount) =>
            /\ M("TESTS FAILED") \in Range(html)
            /\ M("ALL TESTS PASSED") \notin Range(html)

====
